---- MODULE Spec2Model ----
(***************************************************************************)
(* git-versioner: the version resolution engine of src/src/lib.rs.         *)
(*                                                                         *)
(* A repository is a commit tree with local branches, remote-tracking      *)
(* branches, tags and HEAD.  Names are strings; a string is a sequence of  *)
(* characters, a character is a one-character TLA+ string (a non-ASCII     *)
(* character is written by its code point, "U+00E9").  The operators keep  *)
(* the names of the functions of GitVersioner.  A resolver returns the SET *)
(* of results the build can produce: the source collections are HashSets, *)
(* whose iteration order is not fixed, so a choice among equal keys is a   *)
(* choice the program does not control.  Histories are trees: a commit    *)
(* has one parent, and no action merges.                                   *)
(***************************************************************************)
EXTENDS Integers, Sequences, FiniteSets, TLC

VARIABLES commits, local, remote, tags, head, result, input, output

vars == <<commits, local, remote, tags, head, result, input, output>>

-----------------------------------------------------------------------------
(* Characters and strings                                                  *)

Digit == {"0", "1", "2", "3", "4", "5", "6", "7", "8", "9"}

AsciiLetter ==
  {"a", "b", "c", "d", "e", "f", "g", "h", "i", "j", "k", "l", "m", "n", "o",
   "p", "q", "r", "s", "t", "u", "v", "w", "x", "y", "z",
   "A", "B", "C", "D", "E", "F", "G", "H", "I", "J", "K", "L", "M", "N", "O",
   "P", "Q", "R", "S", "T", "U", "V", "W", "X", "Y", "Z"}

\* Letters and digits of Unicode outside ASCII (e-acute, sharp s, the
\* Arabic-Indic digit three): char::is_alphanumeric holds of them.
NonAsciiAlphanumeric == {"U+00E9", "U+00DF", "U+0663"}

\* Characters that are neither letters nor digits (U+1F601 is an emoji).
Symbol == {"/", "-", "_", ".", ",", "!", "]", "{", "}", "(", ")", " ",
           "+", "U+1F601"}

Char == Digit \cup AsciiLetter \cup NonAsciiAlphanumeric \cup Symbol

is_ascii_alphanumeric(c) == c \in Digit \cup AsciiLetter

is_alphanumeric(c) == c \in Digit \cup AsciiLetter \cup NonAsciiAlphanumeric

DigitValue ==
  [c \in Digit |->
     CASE c = "0" -> 0 [] c = "1" -> 1 [] c = "2" -> 2 [] c = "3" -> 3
       [] c = "4" -> 4 [] c = "5" -> 5 [] c = "6" -> 6 [] c = "7" -> 7
       [] c = "8" -> 8 [] c = "9" -> 9]

DigitChar == <<"0", "1", "2", "3", "4", "5", "6", "7", "8", "9">>

\* The index of the first character of s that is in cs, Len(s) + 1 if none.
RECURSIVE FindFrom(_, _, _)
FindFrom(s, cs, i) ==
  IF i > Len(s) THEN Len(s) + 1
  ELSE IF s[i] \in cs THEN i
  ELSE FindFrom(s, cs, i + 1)

Find(s, cs) == FindFrom(s, cs, 1)

Prefix(s, n) == SubSeq(s, 1, n)

Suffix(s, n) == SubSeq(s, n, Len(s))

starts_with(s, p) == Len(s) >= Len(p) /\ Prefix(s, Len(p)) = p

\* str::split(c): the segments of s between occurrences of c (at least one).
RECURSIVE split(_, _)
RECURSIVE split_at(_, _, _)
split_at(s, c, i) ==
  IF i > Len(s) THEN <<s>>
  ELSE <<Prefix(s, i - 1)>> \o split(Suffix(s, i + 1), c)

split(s, c) == split_at(s, c, Find(s, {c}))

Range(seq) == {seq[i] : i \in 1..Len(seq)}

\* str::parse::<integer>: a non-empty run of digits (the sign is not used).
RECURSIVE DigitsValue(_)
DigitsValue(s) ==
  IF s = <<>> THEN 0
  ELSE 10 * DigitsValue(Prefix(s, Len(s) - 1)) + DigitValue[s[Len(s)]]

IsDigits(s) == s # <<>> /\ \A i \in 1..Len(s) : s[i] \in Digit

parse_int(s) == IF IsDigits(s) THEN DigitsValue(s) ELSE -1

\* Display of an integer (format!("{}", n)), n >= 0.
RECURSIVE to_string(_)
to_string(n) ==
  IF n < 10 THEN <<DigitChar[n + 1]>>
  ELSE to_string(n \div 10) \o <<DigitChar[(n % 10) + 1]>>

-----------------------------------------------------------------------------
(* semver::Version and semver::Prerelease                                  *)

IdentifierChar == Digit \cup AsciiLetter \cup {"-"}

\* A dot-separated run of identifiers, none empty, each of [0-9A-Za-z-]; a
\* numeric identifier has no leading zero unless leading zeros are allowed.
ValidIdentifiers(s, zeros) ==
  \A part \in Range(split(s, ".")) :
    /\ part # <<>>
    /\ \A i \in 1..Len(part) : part[i] \in IdentifierChar
    /\ (IsDigits(part) /\ ~zeros) => (Len(part) = 1 \/ part[1] # "0")

\* Prerelease::new(text) succeeds: the empty text is Prerelease::EMPTY.
PrereleaseOk(s) == s = <<>> \/ ValidIdentifiers(s, FALSE)

NumericOk(s) == IsDigits(s) /\ (Len(s) = 1 \/ s[1] # "0")

NoVersion == [ok |-> FALSE]

MkVersion(major, minor, patch, pre) ==
  [ok |-> TRUE, major |-> major, minor |-> minor, patch |-> patch, pre |-> pre]

\* Version::parse(text): MAJOR.MINOR.PATCH, then "-" and a prerelease, then
\* "+" and build metadata; anything else is an error.  Build metadata is
\* validated and dropped: no name of the model carries any.
VersionOf(core, pre, build) ==
  IF /\ Len(core) = 3
     /\ \A i \in 1..3 : NumericOk(core[i])
     /\ pre.given => (pre.text # <<>> /\ ValidIdentifiers(pre.text, FALSE))
     /\ build.given => (build.text # <<>> /\ ValidIdentifiers(build.text, TRUE))
  THEN MkVersion(DigitsValue(core[1]), DigitsValue(core[2]),
                 DigitsValue(core[3]), pre.text)
  ELSE NoVersion

\* rest is the text from the first "-" or "+" on, plus the place of its "+".
VersionMeta(core, rest, plus) ==
  VersionOf(core,
            IF rest # <<>> /\ rest[1] = "-"
            THEN [given |-> TRUE, text |-> SubSeq(rest, 2, plus - 1)]
            ELSE [given |-> FALSE, text |-> <<>>],
            [given |-> plus <= Len(rest), text |-> Suffix(rest, plus + 1)])

VersionCore(s, core_end) ==
  VersionMeta(split(Prefix(s, core_end - 1), "."), Suffix(s, core_end),
              Find(Suffix(s, core_end), {"+"}))

VersionParse(s) == VersionCore(s, Find(s, {"-", "+"}))

\* Ord for Version, on versions without prerelease (every version source is
\* one): major, then minor, then patch.
VersionLess(a, b) ==
  \/ a.major < b.major
  \/ a.major = b.major /\ a.minor < b.minor
  \/ a.major = b.major /\ a.minor = b.minor /\ a.patch < b.patch

SameTriple(a, b) ==
  a.major = b.major /\ a.minor = b.minor /\ a.patch = b.patch

-----------------------------------------------------------------------------
(* The patterns of the default configuration                               *)

Str_trunk   == <<"t", "r", "u", "n", "k">>
Str_main    == <<"m", "a", "i", "n">>
Str_master  == <<"m", "a", "s", "t", "e", "r">>
Str_release == <<"r", "e", "l", "e", "a", "s", "e">>
Str_feature == <<"f", "e", "a", "t", "u", "r", "e">>
Str_pre     == <<"p", "r", "e">>

\* MAIN_BRANCH = ^(trunk|main|master)$
trunk_pattern_is_match(name) == name \in {Str_trunk, Str_main, Str_master}

NoCapture == [ok |-> FALSE]

\* ^<word>s?[/-](?<BranchName>.+)$ : the capture, if the name matches.
\* `at` is the place of the separator, after the optional "s".
LineCaptureAt(word, name, at) ==
  IF /\ starts_with(name, word)
     /\ Len(name) > at
     /\ name[at] \in {"/", "-"}
  THEN [ok |-> TRUE, text |-> Suffix(name, at + 1)]
  ELSE NoCapture

LinePatternCapture(word, name) ==
  LineCaptureAt(word, name,
                IF Len(name) > Len(word) /\ name[Len(word) + 1] = "s"
                THEN Len(word) + 2 ELSE Len(word) + 1)

\* RELEASE_BRANCH = ^releases?[/-](?<BranchName>.+)$
release_pattern_captures(name) == LinePatternCapture(Str_release, name)

\* FEATURE_BRANCH = ^features?[/-](?<BranchName>.+)$
feature_pattern_captures(name) == LinePatternCapture(Str_feature, name)

\* ^[vV]?(?<Version>.+) with TAG_PREFIX = [vV]? : the prefix is taken when
\* something is left for the capture.
version_pattern_captures(name) ==
  IF Len(name) >= 2 /\ name[1] \in {"v", "V"}
  THEN [ok |-> TRUE, text |-> Suffix(name, 2)]
  ELSE IF name # <<>> THEN [ok |-> TRUE, text |-> name]
  ELSE NoCapture

\* The version the pattern captures and Version::parse accepts.
captured_version(captures) ==
  IF captures.ok THEN VersionParse(captures.text) ELSE NoVersion

\* A filter that lets pre-release versions pass.
release_and_pre_release(version) == version

release_only(version) ==
  IF version.ok /\ version.pre = <<>> THEN version ELSE NoVersion

pre_release_only(version) ==
  IF version.ok /\ version.pre # <<>> THEN version ELSE NoVersion

version_in(name) ==
  release_only(captured_version(version_pattern_captures(name)))

pre_release_version_in(name) ==
  pre_release_only(captured_version(version_pattern_captures(name)))

loose_at(s, meta_start) ==
  IF Len(split(Prefix(s, meta_start - 1), ".")) = 2
  THEN Prefix(s, meta_start - 1) \o <<".", "0">> \o Suffix(s, meta_start)
  ELSE s

loose(s) == loose_at(s, Find(s, {"-", "+"}))

Trunk == [type |-> "Trunk"]

Release(version) == [type |-> "Release", version |-> version]

Other(name) == [type |-> "Other", name |-> name]

\* The release version a branch name declares, if it declares one.
release_version_in(captures) ==
  IF captures.ok THEN version_in(loose(captures.text)) ELSE NoVersion

branch_type_of(name, version, feature) ==
  IF trunk_pattern_is_match(name) THEN Trunk
  ELSE IF version.ok THEN Release(version)
  ELSE IF feature.ok THEN Other(feature.text)
  ELSE Other(name)

determine_branch_type_by_name(name) ==
  branch_type_of(name, release_version_in(release_pattern_captures(name)),
                 feature_pattern_captures(name))

\* The checks with the release pattern before the main pattern.
branch_type_release_first(main_branch, name, version, feature) ==
  IF version.ok THEN Release(version)
  ELSE IF name \in main_branch THEN Trunk
  ELSE IF feature.ok THEN Other(feature.text)
  ELSE Other(name)

\* The checks for a configured main pattern ^(a|b|..)$, given as the set
\* of its alternatives.
branch_type_with(main_branch, name, version, feature) ==
  IF name \in main_branch THEN Trunk
  ELSE IF version.ok THEN Release(version)
  ELSE IF feature.ok THEN Other(feature.text)
  ELSE Other(name)

\* determine_branch_type_by_name of a versioner with a configured main
\* pattern and the default release and feature patterns.
determine_branch_type_with(main_branch, name) ==
  branch_type_with(main_branch, name,
                   release_version_in(release_pattern_captures(name)),
                   feature_pattern_captures(name))

\* str::replace with the closure |c| !c.is_alphanumeric(): one "-" per
\* replaced character.
escaped(name) ==
  [i \in 1..Len(name) |-> IF ~is_alphanumeric(name[i]) THEN "-" ELSE name[i]]

-----------------------------------------------------------------------------
(* The repository: what git2 reads                                         *)

\* A repository value: commits[c].parent is the parent of commit c (0 for
\* the root; Oid::zero() is 0), local/remote/tags map a name to its commit
\* (0: no such reference), head is a branch name or a detached commit.
Repo(cs, l, r, t, h) ==
  [commits |-> cs, local |-> l, remote |-> r, tags |-> t, head |-> h]

OnBranch(name) == [is_branch |-> TRUE, name |-> name, commit |-> 0]

Detached(c) == [is_branch |-> FALSE, name |-> <<>>, commit |-> c]

\* repo.head()?.peel_to_commit()?.id()
head_id(R) ==
  IF R.head.is_branch THEN R.local[R.head.name] ELSE R.head.commit

\* A revision walk pushed at `from`: the commit, then its ancestors.
RECURSIVE revwalk(_, _)
revwalk(R, from) ==
  IF from = 0 THEN <<>>
  ELSE <<from>> \o revwalk(R, R.commits[from].parent)

Ancestors(R, c) == Range(revwalk(R, c))

\* Repository::merge_base: the first commit of one's history that is in the
\* other's, when the two histories share a commit.
first_in(walk, others) ==
  walk[CHOOSE i \in 1..Len(walk) :
         /\ walk[i] \in others
         /\ \A j \in 1..(i - 1) : walk[j] \notin others]

repo_merge_base(R, one, two) == first_in(revwalk(R, one), Ancestors(R, two))

merge_base(R, head_oid, source_id) ==
  IF source_id = 0 THEN source_id ELSE repo_merge_base(R, head_oid, source_id)

\* Repository::merge_base is an Err when the two histories share no commit,
\* and `?` returns it.
merge_base_fails(R, head_oid, source_id) ==
  /\ source_id # 0
  /\ Ancestors(R, head_oid) \cap Ancestors(R, source_id) = {}

\* The number of commits the walk from `from` yields before it yields `to`.
\* A count that stops at one commit.
count_before_stuck(walk, to) ==
  IF to \in Range(walk) THEN 1 ELSE Len(walk)

count_before(walk, to) ==
  IF to \in Range(walk)
  THEN (CHOOSE i \in 1..Len(walk) : walk[i] = to) - 1
  ELSE Len(walk)

count_commits_between(R, from, to) == count_before(revwalk(R, from), to)

-----------------------------------------------------------------------------
(* Version sources                                                         *)

VersionSource(version, commit_id, is_tag) ==
  [version |-> version, commit_id |-> commit_id, is_tag |-> is_tag]

Version_0_0_0 == MkVersion(0, 0, 0, <<>>)

no_source == VersionSource(Version_0_0_0, 0, FALSE)

any_comparator == [op |-> "any", major |-> 0, minor |-> 0]

none_comparator == [op |-> "none", major |-> 0, minor |-> 0]

major_minor_comparator(major, minor) ==
  [op |-> "exact", major |-> major, minor |-> minor]

\* Comparator::matches on a version without prerelease: ">=0" matches every
\* one, "<=0.0.0-0" none, "=major.minor" those of the series.
comparator_matches(cmp, version) ==
  CASE cmp.op = "any"   -> TRUE
    [] cmp.op = "none"  -> FALSE
    [] cmp.op = "exact" ->
         version.major = cmp.major /\ version.minor = cmp.minor

IS_RELEASE_VERSION(source) == source.version.pre = <<>>

-----------------------------------------------------------------------------
(* The names of the model                                                  *)

Str_origin == <<"o", "r", "i", "g", "i", "n">>

Branch_main == Str_main

Branch_release_1_0_0 == Str_release \o <<"/", "1", ".", "0", ".", "0">>

Branch_release_1_1 == Str_release \o <<"/", "1", ".", "1">>

Branch_release_0_1_0 == Str_release \o <<"/", "0", ".", "1", ".", "0">>

Branch_feature_a_b == Str_feature \o <<"/", "a", "_", "b">>

Branch_dev == <<"d", "e", "v">>

Branch_release_1_2_0 == Str_release \o <<"/", "1", ".", "2", ".", "0">>

\* Local branch names, in the order the reference iterator yields them.
LocalOrder ==
  <<Branch_dev, Branch_feature_a_b, Branch_main, Branch_release_0_1_0,
    Branch_release_1_0_0, Branch_release_1_1, Branch_release_1_2_0>>

LocalNames == {LocalOrder[i] : i \in 1..Len(LocalOrder)}

\* The branches of the histories with every kind of tag name.
BasicLocalNames == LocalNames \ {Branch_dev, Branch_release_1_2_0}

\* The branches of the histories of continuous delivery.
DeliveryLocalNames ==
  {Branch_main, Branch_release_0_1_0, Branch_release_1_0_0}

\* Remote-tracking branch names, "<remote>/<branch>".
RemoteOrder ==
  <<Str_origin \o <<"/">> \o Branch_main,
    Str_origin \o <<"/">> \o Branch_release_1_0_0>>

RemoteNames == {RemoteOrder[i] : i \in 1..Len(RemoteOrder)}

\* repo.remotes()
Remotes == {Str_origin}

Tag_v1_0_0 == <<"v", "1", ".", "0", ".", "0">>

Tag_v1_0_1 == <<"v", "1", ".", "0", ".", "1">>

Tag_v0_1_0 == <<"v", "0", ".", "1", ".", "0">>

Tag_v1_0_0_pre_1 == Tag_v1_0_0 \o <<"-">> \o Str_pre \o <<".", "1">>

Tag_v0_1_0_pre_5000 ==
  Tag_v0_1_0 \o <<"-">> \o Str_pre \o <<".", "5", "0", "0", "0">>

Tag_x1_0_0 == <<"x", "1", ".", "0", ".", "0">>

Tag_vv1_0_0 == <<"v">> \o Tag_v1_0_0

Tag_v1_0 == <<"v", "1", ".", "0">>

Tag_v0_1_0_pre_1 == Tag_v0_1_0 \o <<"-">> \o Str_pre \o <<".", "1">>

Tag_v0_1_0_rc_1 == Tag_v0_1_0 \o <<"-", "r", "c", ".", "1">>

Tag_v0_1_1_pre_1 ==
  <<"v", "0", ".", "1", ".", "1", "-">> \o Str_pre \o <<".", "1">>

Tag_v1_1_0_pre_1 ==
  <<"v", "1", ".", "1", ".", "0", "-">> \o Str_pre \o <<".", "1">>

\* The tags of the histories with every kind of tag name.
BasicTagNames ==
  {Tag_v1_0_0, Tag_v1_0_1, Tag_v0_1_0, Tag_v1_0_0_pre_1,
   Tag_v0_1_0_pre_5000, Tag_x1_0_0, Tag_vv1_0_0, Tag_v1_0}

\* The tags of the histories of continuous delivery.
DeliveryTagNames ==
  {Tag_v1_0_0, Tag_v0_1_0, Tag_v1_0_0_pre_1, Tag_v0_1_0_pre_1,
   Tag_v0_1_0_rc_1, Tag_v0_1_1_pre_1, Tag_v1_1_0_pre_1}

TagNames == BasicTagNames \cup DeliveryTagNames

\* str::replace(pattern, ""): every occurrence of the pattern is removed.
RECURSIVE remove_all(_, _)
remove_all(s, pattern) ==
  IF s = <<>> THEN s
  ELSE IF starts_with(s, pattern)
       THEN remove_all(Suffix(s, Len(pattern) + 1), pattern)
  ELSE <<s[1]>> \o remove_all(Suffix(s, 2), pattern)

\* str::split_once('/'): the text after the first "/", if there is one.
split_once_after(s) ==
  LET i == Find(s, {"/"})
  IN  IF i > Len(s) THEN NoCapture ELSE [ok |-> TRUE, text |-> Suffix(s, i + 1)]

\* The names are classified once: these tables are the functions above on
\* the names of the model.
TagVersion == [t \in TagNames |-> version_in(t)]

TagPreReleaseVersion == [t \in TagNames |-> pre_release_version_in(t)]

LocalType == [n \in LocalNames |-> determine_branch_type_by_name(n)]

RemoteVersionType ==
  [n \in RemoteNames |->
     [origin \in Remotes |->
        determine_branch_type_by_name(remove_all(n, origin \o <<"/">>))]]

version_tags(R) ==
  {VersionSource(TagVersion[t], R.tags[t], TRUE) :
     t \in {n \in TagNames : R.tags[n] # 0 /\ TagVersion[n].ok}}

version_branches(R) ==
  {VersionSource(LocalType[b].version, R.local[b], FALSE) :
     b \in {n \in LocalNames : R.local[n] # 0 /\ LocalType[n].type = "Release"}}

\* No remote-tracking branch is a source.
remote_version_branches_ignored(R) == {}

remote_version_branches(R) ==
  UNION {
    {VersionSource(RemoteVersionType[b][origin].version, R.remote[b], FALSE) :
       b \in {n \in RemoteNames :
                /\ R.remote[n] # 0
                /\ RemoteVersionType[n][origin].type = "Release"}}
    : origin \in Remotes}

\* Every pre-release tag matches.
matching_pre_release_any(pre, release) == TRUE

matching_pre_release(pre, release) == SameTriple(pre, release)

pre_release_version_tags(R, next_release_version) ==
  {VersionSource(TagPreReleaseVersion[t], R.tags[t], TRUE) :
     t \in {n \in TagNames :
              /\ R.tags[n] # 0
              /\ TagPreReleaseVersion[n].ok
              /\ matching_pre_release(TagPreReleaseVersion[n],
                                      next_release_version)}}

\* The sources find_latest_version_source can return: matching_tags is
\* sorted by version (a stable sort of a HashSet's iteration order) and the
\* last is taken, so any source of the highest version can come out; the
\* empty set is None.
find_latest_version_source(R, track_release_branches, comparator) ==
  LET sources ==
        IF track_release_branches
        THEN version_tags(R) \cup version_branches(R)
               \cup remote_version_branches(R)
        ELSE version_tags(R)
      all_sources == {no_source} \cup sources
      matching_tags ==
        {source \in all_sources :
           /\ IS_RELEASE_VERSION(source)
           /\ comparator_matches(comparator, source.version)}
  IN  {source \in matching_tags :
         \A other \in matching_tags :
           ~VersionLess(source.version, other.version)}

find_trunk_version_source(R) ==
  find_latest_version_source(R, TRUE, any_comparator)

-----------------------------------------------------------------------------
(* Conventional commits (conventional_commit_parser::parse)                *)

Str_feat == <<"f", "e", "a", "t">>

Str_fix == <<"f", "i", "x">>

Str_breaking_change ==
  <<"B", "R", "E", "A", "K", "I", "N", "G", " ", "C", "H", "A", "N", "G",
    "E", ":", " ">>

NotConventional == [ok |-> FALSE]

\* "<type>[(scope)][!]: <description>", then lines; a line that starts with
\* "BREAKING CHANGE: " is a breaking-change footer.
parse_type(scoped, open, breaking) ==
  IF /\ open > 1
     /\ \A i \in 1..(open - 1) : scoped[i] \in AsciiLetter
     /\ open <= Len(scoped) => scoped[Len(scoped)] = ")"
  THEN [ok |-> TRUE,
        is_breaking_change |-> breaking,
        is_feature |-> Prefix(scoped, open - 1) = Str_feat]
  ELSE NotConventional

\* `before` is the header up to its first ":".
parse_prefix(before, footer) ==
  IF before # <<>> /\ before[Len(before)] = "!"
  THEN parse_type(Prefix(before, Len(before) - 1),
                  Find(Prefix(before, Len(before) - 1), {"("}), TRUE)
  ELSE parse_type(before, Find(before, {"("}), footer)

parse_header(header, colon, footer) ==
  IF colon + 1 < Len(header) /\ header[colon + 1] = " "
  THEN parse_prefix(Prefix(header, colon - 1), footer)
  ELSE NotConventional

parse_lines(lines) ==
  parse_header(lines[1], Find(lines[1], {":"}),
               \E i \in 2..Len(lines) : starts_with(lines[i], Str_breaking_change))

parse(message) == parse_lines(split(message, "\n"))

\* determine_bump_between: the walk stops at `to`; a commit is looked at
\* only while the bump is still Patch.
RECURSIVE bump_walk(_, _, _, _, _)
RECURSIVE bump_step(_, _, _, _, _, _)
bump_step(R, walk, i, to, commit_bump, conventional_commit) ==
  IF commit_bump = "Patch" /\ conventional_commit.ok
  THEN IF conventional_commit.is_breaking_change THEN "Major"
       ELSE bump_walk(R, walk, i + 1, to,
              IF conventional_commit.is_feature THEN "Minor" ELSE commit_bump)
  ELSE bump_walk(R, walk, i + 1, to, commit_bump)

bump_walk(R, walk, i, to, commit_bump) ==
  IF i > Len(walk) \/ walk[i] = to THEN commit_bump
  ELSE bump_step(R, walk, i, to, commit_bump,
                 parse(R.commits[walk[i]].message))

determine_bump_between(R, from, to) ==
  bump_walk(R, revwalk(R, from), 1, to, "Patch")

-----------------------------------------------------------------------------
(* The resolvers                                                           *)

PRERELEASE_WEIGHT_MAIN == 55000

PRERELEASE_WEIGHT_RELEASE == PRERELEASE_WEIGHT_MAIN

PRERELEASE_WEIGHT_TAG == 60000

PRERELEASE_WEIGHT_FEATURE == 30000

\* Result<(Version, VersionSource, u64)>
Resolved(version, source, weight) ==
  [ok |-> TRUE, version |-> version, source |-> source, weight |-> weight]

Failed(error) == [ok |-> FALSE, panic |-> FALSE, error |-> error]

Panicked(error) == [ok |-> FALSE, panic |-> TRUE, error |-> error]

\* The fallback weight for every source.
version_from_any(source, fallback_weight) ==
  Resolved(source.version, source, fallback_weight)

version_from(source, fallback_weight) ==
  Resolved(source.version, source,
           IF source.is_tag THEN PRERELEASE_WEIGHT_TAG ELSE fallback_weight)

\* Display of an i64.
display(n) == IF n < 0 THEN <<"-">> \o to_string(-n) ELSE to_string(n)

\* str::parse::<i64>: an optional sign, then digits.
parse_i64(s) ==
  IF s # <<>> /\ s[1] \in {"-", "+"} /\ IsDigits(Suffix(s, 2))
  THEN [ok |-> TRUE,
        value |-> IF s[1] = "-" THEN -DigitsValue(Suffix(s, 2))
                  ELSE DigitsValue(Suffix(s, 2))]
  ELSE IF IsDigits(s) THEN [ok |-> TRUE, value |-> DigitsValue(s)]
  ELSE [ok |-> FALSE]

number_after(pre, expected_prefix) ==
  IF ~starts_with(pre, expected_prefix) THEN [ok |-> FALSE]
  ELSE parse_i64(Suffix(pre, Len(expected_prefix) + 1))

extract_pre_release_number(version, pre_release_tag) ==
  number_after(version.pre, pre_release_tag \o <<".">>)

\* The pairs <<number, source>> max_by_key can return (the last of the
\* highest, in a HashSet's order); the empty set is None.
highest_numbered(numbered) ==
  {pair \in numbered : \A other \in numbered : other[1] <= pair[1]}

find_latest_matching_pre_release(R, cfg, version) ==
  highest_numbered(
    {<<number_of[2].value, number_of[1]>> :
       number_of \in
         {pair \in
            {<<source,
               extract_pre_release_number(source.version, cfg.pre_release_tag)>> :
               source \in pre_release_version_tags(R, version)} :
            pair[2].ok}})

\* The text of the prerelease "{prerelease_tag}.{count}".
pre_release(cfg, count) == cfg.pre_release_tag \o <<".">> \o display(count)

\* `match self.continuous_delivery { .. }`: the pairs <<pre_release_number,
\* source>>, from the highest pre-release tag of `lookup` or from the
\* commit count.
\* highest_pre_release.unwrap_or((0, source)), without the plus one
reference_pre_release_not_advanced(highest_pre_release, source) ==
  IF highest_pre_release = {} THEN {<<0, source>>}
  ELSE highest_pre_release

\* highest_pre_release.unwrap_or((0, source)), plus one
reference_pre_release(highest_pre_release, source) ==
  IF highest_pre_release = {} THEN {<<0 + 1, source>>}
  ELSE {<<pair[1] + 1, pair[2]>> : pair \in highest_pre_release}

pre_release_number_and_source(R, cfg, lookup, source, commit_count) ==
  IF cfg.continuous_delivery
  THEN reference_pre_release(find_latest_matching_pre_release(R, cfg, lookup),
                             source)
  ELSE {<<commit_count, source>>}

\* version.pre = self.pre_release(n)?; Ok((version, source, weight))
\* Prerelease::new(text)?, then Ok((version, source, weight))
with_pre(version, text, source, weight) ==
  IF PrereleaseOk(text)
  THEN Resolved([version EXCEPT !.pre = text], source, weight)
  ELSE Failed("prerelease")

with_pre_release(cfg, version, number_and_source, weight) ==
  with_pre(version, pre_release(cfg, number_and_source[1]),
           number_and_source[2], weight)

\* A minor bump that keeps the patch.
bump_minor_keeping_patch(version) == [version EXCEPT !.minor = @ + 1]

bump_minor(version) == [version EXCEPT !.minor = @ + 1, !.patch = 0]

bump_major(version) ==
  [version EXCEPT !.major = @ + 1, !.minor = 0, !.patch = 0]

\* No patch bump.
bump_patch_skipped(version) == version

bump_patch(version) == [version EXCEPT !.patch = @ + 1]

\* The version after the source on the main line.
\* `match self.determine_bump_between(head_id, merge_base_oid)? { .. }`
bumped(version, commit_bump) ==
  CASE commit_bump = "Major" ->
         IF version.major = 0 THEN bump_minor(version) ELSE bump_major(version)
    [] commit_bump = "Minor" -> bump_minor(version)
    [] commit_bump = "Patch" ->
         IF version.major = 0 /\ version.minor = 0 THEN bump_minor(version)
         ELSE bump_patch(version)

\* The version after the source on the main line.
\* The version of the source, not bumped.
trunk_bump_kept(R, cfg, source, head_oid, merge_base_oid) == source.version

trunk_bump(R, cfg, source, head_oid, merge_base_oid) ==
  IF ~cfg.is_commit_message_incrementing THEN bump_minor(source.version)
  ELSE bumped(source.version,
              determine_bump_between(R, head_oid, merge_base_oid))

\* The main line ahead of its source.
trunk_ahead(R, cfg, source, version, head_oid, merge_base_oid) ==
  {with_pre_release(cfg, version, pair, PRERELEASE_WEIGHT_MAIN) :
     pair \in pre_release_number_and_source(R, cfg, version, source,
                count_commits_between(R, head_oid, merge_base_oid))}

trunk_at(R, cfg, source, head_oid, merge_base_oid) ==
  IF head_oid = merge_base_oid
  THEN {version_from(source, PRERELEASE_WEIGHT_MAIN)}
  ELSE trunk_ahead(R, cfg, source,
                   trunk_bump(R, cfg, source, head_oid, merge_base_oid),
                   head_oid, merge_base_oid)

trunk_from(R, cfg, source) ==
  IF merge_base_fails(R, head_id(R), source.commit_id)
  THEN {Failed("merge_base")}
  ELSE trunk_at(R, cfg, source, head_id(R),
                merge_base(R, head_id(R), source.commit_id))

calculate_version_for_trunk(R, cfg) ==
  UNION {trunk_from(R, cfg, source) : source \in find_trunk_version_source(R)}

FoundBranch(branch_type, distance) ==
  [branch_type |-> branch_type, distance |-> distance]

\* repo.branches(None): the local branches, then the remote-tracking ones.
BranchOrder ==
  [i \in 1..(Len(LocalOrder) + Len(RemoteOrder)) |->
     IF i <= Len(LocalOrder)
     THEN [is_remote |-> FALSE, name |-> LocalOrder[i]]
     ELSE [is_remote |-> TRUE, name |-> RemoteOrder[i - Len(LocalOrder)]]]

\* The type of a branch by its cleaned name: a remote-tracking branch is
\* classified by the text after the first "/".
CleanedType ==
  [i \in DOMAIN BranchOrder |->
     IF BranchOrder[i].is_remote
     THEN determine_branch_type_by_name(
            split_once_after(BranchOrder[i].name).text)
     ELSE LocalType[BranchOrder[i].name]]

BranchTip(R, i) ==
  IF BranchOrder[i].is_remote THEN R.remote[BranchOrder[i].name]
  ELSE R.local[BranchOrder[i].name]

\* The loop without the `continue` of the Other branches.
RECURSIVE found_from_any(_, _, _)
found_from_any(R, count_reference, i) ==
  IF i > Len(BranchOrder) THEN <<>>
  ELSE IF BranchTip(R, i) = 0
       THEN found_from_any(R, count_reference, i + 1)
  ELSE <<FoundBranch(CleanedType[i],
           count_commits_between(R, count_reference,
             merge_base(R, count_reference, BranchTip(R, i))))>>
         \o found_from_any(R, count_reference, i + 1)

RECURSIVE found_from(_, _, _)
found_from(R, count_reference, i) ==
  IF i > Len(BranchOrder) THEN <<>>
  ELSE IF BranchTip(R, i) = 0 \/ CleanedType[i].type = "Other"
       THEN found_from(R, count_reference, i + 1)
  ELSE <<FoundBranch(CleanedType[i],
           count_commits_between(R, count_reference,
             merge_base(R, count_reference, BranchTip(R, i))))>>
         \o found_from(R, count_reference, i + 1)

is_trunk_branch(found) == found.branch_type.type = "Trunk"

\* The main branches only.
find_all_trunk_branches(R, count_reference) ==
  SelectSeq(found_from(R, count_reference, 1), is_trunk_branch)

find_all_source_branches(R, count_reference) ==
  found_from(R, count_reference, 1)

\* find_all_source_branches is an Err when the merge base with one of the
\* main or release branches is.
source_branches_fail(R, count_reference) ==
  \E i \in DOMAIN BranchOrder :
    /\ BranchTip(R, i) # 0
    /\ CleanedType[i].type # "Other"
    /\ merge_base_fails(R, count_reference, BranchTip(R, i))

\* derive(Ord) for BranchType: Trunk, then Release by version, then Other.
TypeRank(branch_type) ==
  CASE branch_type.type = "Trunk"   -> 0
    [] branch_type.type = "Release" -> 1
    [] branch_type.type = "Other"   -> 2

branch_type_less(a, b) ==
  \/ TypeRank(a) < TypeRank(b)
  \/ /\ a.type = "Release"
     /\ b.type = "Release"
     /\ VersionLess(a.version, b.version)

\* a.branch_type.cmp(&b.branch_type)
by_type(a, b) == branch_type_less(a.branch_type, b.branch_type)

\* The order by type alone.
by_distance_ignored(a, b) == by_type(a, b)

\* a.distance.cmp(&b.distance).then_with(|| a.branch_type.cmp(&b.branch_type))
by_distance_then_type(a, b) ==
  \/ a.distance < b.distance
  \/ a.distance = b.distance /\ by_type(a, b)

\* The index of the last element.
last_found(found) == Len(found)

\* The index of the element that is first after a stable sort.
first_by_type(found) ==
  CHOOSE i \in 1..Len(found) :
    /\ \A j \in 1..Len(found) : ~by_type(found[j], found[i])
    /\ \A j \in 1..(i - 1) : by_type(found[i], found[j])

first_by_distance_then_type(found) ==
  CHOOSE i \in 1..Len(found) :
    /\ \A j \in 1..Len(found) : ~by_distance_then_type(found[j], found[i])
    /\ \A j \in 1..(i - 1) : by_distance_then_type(found[i], found[j])

\* One branch of calculate_version_for_release: a source was found, and
\* new_version is the version the branch gives a HEAD ahead of it.
release_at(R, cfg, new_version, source, head_oid, merge_base_oid) ==
  IF head_oid = merge_base_oid
  THEN {version_from(source, PRERELEASE_WEIGHT_RELEASE)}
  ELSE {with_pre_release(cfg, new_version, pair, PRERELEASE_WEIGHT_RELEASE) :
          pair \in pre_release_number_and_source(R, cfg, source.version, source,
                     count_commits_between(R, head_oid, merge_base_oid))}

release_from(R, cfg, new_version, source) ==
  IF merge_base_fails(R, head_id(R), source.commit_id)
  THEN {Failed("merge_base")}
  ELSE release_at(R, cfg, new_version, source, head_id(R),
                  merge_base(R, head_id(R), source.commit_id))

\* The last branch: no source of the series, none of the previous series.
release_closest(R, cfg, source, found_branches) ==
  IF found_branches = <<>> THEN {Panicked("unwrap on None")}
  ELSE {with_pre_release(cfg, pair[2].version, pair,
                         PRERELEASE_WEIGHT_RELEASE) :
          pair \in pre_release_number_and_source(R, cfg, source.version, source,
                     found_branches[first_by_type(found_branches)].distance)}

release_from_branches(R, cfg, release_version) ==
  IF source_branches_fail(R, head_id(R)) THEN {Failed("merge_base")}
  ELSE release_closest(R, cfg, VersionSource(release_version, 0, FALSE),
                       find_all_source_branches(R, head_id(R)))

\* The comparator of the series itself.
previous_version_is_current(release_version) ==
  major_minor_comparator(release_version.major, release_version.minor)

previous_version(release_version) ==
  IF release_version.minor > 0
  THEN major_minor_comparator(release_version.major, release_version.minor - 1)
  ELSE none_comparator

release_with(R, cfg, release_version, current, previous) ==
  IF current # {}
  THEN UNION {release_from(R, cfg, bump_patch(source.version), source) :
                source \in current}
  ELSE IF previous # {}
  THEN UNION {release_from(R, cfg, release_version, source) :
                source \in previous}
  ELSE release_from_branches(R, cfg, release_version)

calculate_version_for_release(R, cfg, release_version) ==
  release_with(R, cfg, release_version,
    find_latest_version_source(R, FALSE,
      major_minor_comparator(release_version.major, release_version.minor)),
    find_latest_version_source(R, TRUE, previous_version(release_version)))

Version_0_1_0 == MkVersion(0, 1, 0, <<>>)

feature_fallback ==
  Resolved(Version_0_1_0, VersionSource(Version_0_1_0, 0, FALSE), 0)

\* Prerelease::new(&format!("{}.{}", Self::escaped(name), distance))?
feature_pre(base, text) ==
  IF PrereleaseOk(text)
  THEN Resolved([base.version EXCEPT !.pre = text], base.source,
                PRERELEASE_WEIGHT_FEATURE)
  ELSE Failed("prerelease")

\* The tail of calculate_version_for_feature without the return at
\* distance 0.
feature_from_labelled(name, base, distance) ==
  feature_pre(base, escaped(name) \o <<".">> \o display(distance))

\* The tail of calculate_version_for_feature, for one base.
feature_from(name, base, distance) ==
  IF distance = 0 THEN base
  ELSE feature_pre(base, escaped(name) \o <<".">> \o display(distance))

\* The base of a feature branch: the version of the closest line, resolved
\* at HEAD.
feature_base(R, cfg, branch_type) ==
  CASE branch_type.type = "Trunk" -> calculate_version_for_trunk(R, cfg)
    [] branch_type.type = "Release" ->
         calculate_version_for_release(R, cfg, branch_type.version)
    [] branch_type.type = "Other" -> {Panicked("Unexpected branch type")}

\* A panic of the base passes; an Err of the base is replaced by the fallback.
feature_over(name, bases, distance) ==
  {IF ~base.ok /\ base.panic THEN base
   ELSE feature_from(name, IF base.ok THEN base ELSE feature_fallback,
                     distance) :
     base \in bases}

feature_closest(R, cfg, name, closest_branch) ==
  feature_over(name, feature_base(R, cfg, closest_branch.branch_type),
               closest_branch.distance)

feature_with(R, cfg, name, found_branches) ==
  IF found_branches = <<>>
  THEN feature_over(name, {feature_fallback},
                    count_commits_between(R, head_id(R), 0))
  ELSE feature_closest(R, cfg, name,
         found_branches[first_by_distance_then_type(found_branches)])

calculate_version_for_feature(R, cfg, name) ==
  IF source_branches_fail(R, head_id(R)) THEN {Failed("merge_base")}
  ELSE feature_with(R, cfg, name, find_all_source_branches(R, head_id(R)))

-----------------------------------------------------------------------------
(* calculate_version and the result record                                 *)

NO_BRANCH_NAME ==
  <<"(", "n", "o", " ", "b", "r", "a", "n", "c", "h", ")">>

\* Configuration: the values calculate_version reads (the patterns are the
\* default ones, above).
Config(commit_message_incrementing, continuous_delivery, as_release) ==
  [pre_release_tag |-> Str_pre,
   commit_message_incrementing |-> commit_message_incrementing,
   continuous_delivery |-> continuous_delivery,
   as_release |-> as_release]

\* GitVersioner::new on a repository that opens.
new(config) ==
  IF config.commit_message_incrementing \notin {"Enabled", "Disabled"}
  THEN Panicked("Invalid value for CommitMessageIncrementing")
  ELSE [ok |-> TRUE,
        pre_release_tag |-> config.pre_release_tag,
        continuous_delivery |-> config.continuous_delivery,
        is_commit_message_incrementing |->
          config.commit_message_incrementing = "Enabled"]

branch_name_for(reference) ==
  IF ~reference.is_branch THEN NO_BRANCH_NAME ELSE reference.name

\* Display of a Version.
version_to_string(version) ==
  to_string(version.major) \o <<".">> \o to_string(version.minor) \o <<".">>
    \o to_string(version.patch)
    \o (IF version.pre = <<>> THEN <<>> ELSE <<"-">> \o version.pre)

\* str::parse::<u64>
parse_u64(s) ==
  IF IsDigits(s) THEN [ok |-> TRUE, value |-> DigitsValue(s)]
  ELSE IF s # <<>> /\ s[1] = "+" /\ IsDigits(Suffix(s, 2))
  THEN [ok |-> TRUE, value |-> DigitsValue(Suffix(s, 2))]
  ELSE [ok |-> FALSE]

\* GitVersion::new, for the pre-release text split at "."
git_version(version, parts, number, branch_name, source, weight, head_oid) ==
  IF ~number.ok THEN Panicked("unwrap on Err")
  ELSE [ok |-> TRUE,
        major |-> version.major,
        minor |-> version.minor,
        patch |-> version.patch,
        pre_release_tag |-> version.pre,
        pre_release_label |-> parts[1],
        pre_release_number |-> number.value,
        weighted_pre_release_number |-> number.value + weight,
        full_sem_ver |-> version_to_string(version),
        branch_name |-> branch_name,
        escaped_branch_name |-> escaped(branch_name),
        sha |-> head_oid,
        version_source_sha |-> source]

git_version_of(version, parts, branch_name, source, weight, head_oid) ==
  git_version(version, parts,
              parse_u64(IF Len(parts) >= 2 THEN parts[2] ELSE <<"0">>),
              branch_name, source, weight, head_oid)

GitVersion(version, branch_name, source, prerelease_weight, head_oid) ==
  git_version_of(version, split(version.pre, "."), branch_name, source,
                 prerelease_weight, head_oid)

\* The match on the type of HEAD's branch.
resolve_for(R, versioner, branch_type) ==
  CASE branch_type.type = "Trunk" -> calculate_version_for_trunk(R, versioner)
    [] branch_type.type = "Release" ->
         calculate_version_for_release(R, versioner, branch_type.version)
    [] branch_type.type = "Other" ->
         calculate_version_for_feature(R, versioner, branch_type.name)

\* The (version, source, prerelease_weight) values the match can give, or
\* the failure of the call.
resolve_with(R, versioner) ==
  IF ~versioner.ok THEN {versioner}
  ELSE resolve_for(R, versioner,
                   determine_branch_type_by_name(branch_name_for(R.head)))

resolve(R, config) == resolve_with(R, new(config))

\* The end of calculate_version without the as_release override.
finish_as_resolved(R, config, resolved) ==
  IF ~resolved.ok THEN resolved
  ELSE GitVersion(resolved.version, branch_name_for(R.head),
                  resolved.source.commit_id, resolved.weight, head_id(R))

\* The end of calculate_version: as_release clears the pre-release and
\* gives the weight of a tag.
finish(R, config, resolved) ==
  IF ~resolved.ok THEN resolved
  ELSE IF config.as_release
  THEN GitVersion([resolved.version EXCEPT !.pre = <<>>],
                  branch_name_for(R.head), resolved.source.commit_id,
                  PRERELEASE_WEIGHT_TAG, head_id(R))
  ELSE GitVersion(resolved.version, branch_name_for(R.head),
                  resolved.source.commit_id, resolved.weight, head_id(R))

\* The results calculate_version can return on repository R.
calculate_version(R, config) ==
  {finish(R, config, resolved) : resolved \in resolve(R, config)}

-----------------------------------------------------------------------------
(* The state machine: git operations on the repository, and the call       *)

MaxCommits == 3

MaxRefs == 2

Msg_text == <<"w", "i", "p">>

NoResult == [computed |-> FALSE]

NoOutput == [computed |-> FALSE]

repo == Repo(commits, local, remote, tags, head)

RefCount ==
  Cardinality({n \in LocalNames : local[n] # 0 /\ n # Branch_main})
    + Cardinality({n \in RemoteNames : remote[n] # 0})
    + Cardinality({n \in TagNames : tags[n] # 0})

Init ==
  /\ commits = <<[parent |-> 0, message |-> Msg_text]>>
  /\ local = [n \in LocalNames |-> IF n = Branch_main THEN 1 ELSE 0]
  /\ remote = [n \in RemoteNames |-> 0]
  /\ tags = [n \in TagNames |-> 0]
  /\ head = OnBranch(Branch_main)
  /\ result = NoResult
  /\ input = <<>>
  /\ output = NoOutput

\* git commit --allow-empty -m message
Commit(message) ==
  /\ Len(commits) < MaxCommits
  /\ commits' = Append(commits, [parent |-> head_id(repo), message |-> message])
  /\ IF head.is_branch
     THEN local' = [local EXCEPT ![head.name] = Len(commits) + 1]
            /\ head' = head
     ELSE head' = Detached(Len(commits) + 1) /\ local' = local
  /\ result' = NoResult
  /\ UNCHANGED <<remote, tags, input, output>>

\* git branch name; git checkout name
CreateBranch(name) ==
  /\ local[name] = 0
  /\ RefCount < MaxRefs
  /\ local' = [local EXCEPT ![name] = head_id(repo)]
  /\ head' = OnBranch(name)
  /\ result' = NoResult
  /\ UNCHANGED <<commits, remote, tags, input, output>>

\* git checkout name
Checkout(name) ==
  /\ local[name] # 0
  /\ head # OnBranch(name)
  /\ head' = OnBranch(name)
  /\ result' = NoResult
  /\ UNCHANGED <<commits, local, remote, tags, input, output>>

\* git checkout <sha> or git checkout tags/<tag>: a detached HEAD
CheckoutCommit(c) ==
  /\ head # Detached(c)
  /\ head' = Detached(c)
  /\ result' = NoResult
  /\ UNCHANGED <<commits, local, remote, tags, input, output>>

\* git tag name
CreateTag(name) ==
  /\ tags[name] = 0
  /\ RefCount < MaxRefs
  /\ tags' = [tags EXCEPT ![name] = head_id(repo)]
  /\ result' = NoResult
  /\ UNCHANGED <<commits, local, remote, head, input, output>>

\* git fetch: a remote-tracking branch appears at a commit
Fetch(name, c) ==
  /\ remote[name] = 0
  /\ RefCount < MaxRefs
  /\ remote' = [remote EXCEPT ![name] = c]
  /\ result' = NoResult
  /\ UNCHANGED <<commits, local, tags, head, input, output>>

\* GitVersioner::calculate_version(&config)
CalculateVersion(config) ==
  /\ \E resolved \in resolve(repo, config) :
       result' = [computed |-> TRUE, config |-> config, resolved |-> resolved,
                  value |-> finish(repo, config, resolved)]
  /\ UNCHANGED <<commits, local, remote, tags, head, input, output>>

Configs == {Config("Disabled", cd, FALSE) : cd \in BOOLEAN}

Next ==
  \/ Commit(Msg_text)
  \/ \E name \in BasicLocalNames : CreateBranch(name)
  \/ \E name \in BasicLocalNames : Checkout(name)
  \/ \E c \in 1..Len(commits) : CheckoutCommit(c)
  \/ \E name \in BasicTagNames : CreateTag(name)
  \/ \E name \in RemoteNames, c \in 1..Len(commits) : Fetch(name, c)
  \/ \E config \in Configs : CalculateVersion(config)

Spec == Init /\ [][Next]_vars

-----------------------------------------------------------------------------
(* Continuous delivery: longer histories, pre-release tags of several      *)
(* versions and labels                                                     *)

MaxDeliveryCommits == 4

\* git commit --allow-empty -m message
CommitDelivery(message) ==
  /\ Len(commits) < MaxDeliveryCommits
  /\ commits' = Append(commits, [parent |-> head_id(repo), message |-> message])
  /\ local' = [local EXCEPT ![head.name] = Len(commits) + 1]
  /\ result' = NoResult
  /\ UNCHANGED <<remote, tags, head, input, output>>

DeliveryConfig == Config("Disabled", TRUE, FALSE)

NextDelivery ==
  \/ CommitDelivery(Msg_text)
  \/ \E name \in DeliveryLocalNames : CreateBranch(name)
  \/ \E name \in DeliveryLocalNames : Checkout(name)
  \/ \E name \in DeliveryTagNames : CreateTag(name)
  \/ CalculateVersion(DeliveryConfig)

SpecDelivery == Init /\ [][NextDelivery]_vars

-----------------------------------------------------------------------------
(* Branches that are neither the main line nor a release line: the         *)
(* repository starts on any initial branch                                 *)

FeatureLocalNames ==
  {Branch_dev, Branch_feature_a_b, Branch_main, Branch_release_1_0_0,
   Branch_release_1_2_0}

FeatureTagNames == {Tag_v1_0_0, Tag_v0_1_0}

\* git init --initial-branch=<name>, and the first commit
InitFeature ==
  /\ commits = <<[parent |-> 0, message |-> Msg_text]>>
  /\ \E initial \in {Branch_main, Branch_dev} :
       /\ local = [n \in LocalNames |-> IF n = initial THEN 1 ELSE 0]
       /\ head = OnBranch(initial)
  /\ remote = [n \in RemoteNames |-> 0]
  /\ tags = [n \in TagNames |-> 0]
  /\ result = NoResult
  /\ input = <<>>
  /\ output = NoOutput

NextFeature ==
  \/ Commit(Msg_text)
  \/ \E name \in FeatureLocalNames : CreateBranch(name)
  \/ \E name \in FeatureLocalNames : Checkout(name)
  \/ \E c \in 1..Len(commits) : CheckoutCommit(c)
  \/ \E name \in FeatureTagNames : CreateTag(name)
  \/ \E name \in RemoteNames, c \in 1..Len(commits) : Fetch(name, c)
  \/ \E config \in Configs : CalculateVersion(config)

SpecFeature == InitFeature /\ [][NextFeature]_vars

-----------------------------------------------------------------------------
(* Repositories with unrelated histories                                   *)

OrphanLocalNames ==
  {Branch_main, Branch_dev, Branch_feature_a_b, Branch_release_1_0_0}

OrphanTagNames == {Tag_v1_0_0, Tag_v0_1_0}

\* git checkout --orphan name; git commit --allow-empty -m message
CommitOrphan(name, message) ==
  /\ local[name] = 0
  /\ RefCount < MaxRefs
  /\ Len(commits) < MaxCommits
  /\ commits' = Append(commits, [parent |-> 0, message |-> message])
  /\ local' = [local EXCEPT ![name] = Len(commits) + 1]
  /\ head' = OnBranch(name)
  /\ result' = NoResult
  /\ UNCHANGED <<remote, tags, input, output>>

NextOrphan ==
  \/ Commit(Msg_text)
  \/ \E name \in OrphanLocalNames : CommitOrphan(name, Msg_text)
  \/ \E name \in OrphanLocalNames : CreateBranch(name)
  \/ \E name \in OrphanLocalNames : Checkout(name)
  \/ \E c \in 1..Len(commits) : CheckoutCommit(c)
  \/ \E name \in OrphanTagNames : CreateTag(name)
  \/ \E config \in Configs : CalculateVersion(config)

SpecOrphan == Init /\ [][NextOrphan]_vars

-----------------------------------------------------------------------------
(* A clone of a repository that has a release branch                       *)

ClonedLocalNames == {Branch_main, Branch_release_1_1, Branch_release_1_0_0}

ClonedTagNames == {Tag_v1_0_0, Tag_v0_1_0}

\* git clone: main is checked out, the release branch of the origin is a
\* remote-tracking branch.
InitCloned ==
  /\ commits = <<[parent |-> 0, message |-> Msg_text]>>
  /\ local = [n \in LocalNames |-> IF n = Branch_main THEN 1 ELSE 0]
  /\ remote = [n \in RemoteNames |->
                 IF n = RemoteOrder[Len(RemoteOrder)] THEN 1 ELSE 0]
  /\ tags = [n \in TagNames |-> 0]
  /\ head = OnBranch(Branch_main)
  /\ result = NoResult
  /\ input = <<>>
  /\ output = NoOutput

\* git checkout -b name
StartBranch(name) ==
  /\ local[name] = 0
  /\ local' = [local EXCEPT ![name] = head_id(repo)]
  /\ head' = OnBranch(name)
  /\ result' = NoResult
  /\ UNCHANGED <<commits, remote, tags, input, output>>

NextCloned ==
  \/ Commit(Msg_text)
  \/ \E name \in ClonedLocalNames : StartBranch(name)
  \/ \E name \in ClonedLocalNames : Checkout(name)
  \/ \E name \in ClonedTagNames : CreateTag(name)
  \/ \E config \in Configs : CalculateVersion(config)

SpecCloned == InitCloned /\ [][NextCloned]_vars

-----------------------------------------------------------------------------
(* Commit-message incrementing: conventional commits on the main line      *)

Msg_feat == Str_feat \o <<":", " ", "a">>

Msg_fix == Str_fix \o <<":", " ", "b">>

Msg_fix_breaking == Str_fix \o <<"!", ":", " ", "c">>

Msg_fix_footer ==
  Str_fix \o <<":", " ", "d", "\n", "\n">> \o Str_breaking_change \o <<"e">>

Messages == {Msg_text, Msg_feat, Msg_fix, Msg_fix_breaking, Msg_fix_footer}

MessageTagNames == {Tag_v1_0_0, Tag_v0_1_0}

MessageConfigs == {Config("Enabled", cd, FALSE) : cd \in BOOLEAN}

\* git init, and a first commit with any message
InitMessages ==
  /\ \E message \in Messages :
       commits = <<[parent |-> 0, message |-> message]>>
  /\ local = [n \in LocalNames |-> IF n = Branch_main THEN 1 ELSE 0]
  /\ remote = [n \in RemoteNames |-> 0]
  /\ tags = [n \in TagNames |-> 0]
  /\ head = OnBranch(Branch_main)
  /\ result = NoResult
  /\ input = <<>>
  /\ output = NoOutput

\* self.determine_bump_between(head_id, to)
DetermineBumpBetween(to) ==
  /\ output' = [computed |-> TRUE, from |-> head_id(repo), to |-> to,
                value |-> determine_bump_between(repo, head_id(repo), to)]
  /\ UNCHANGED <<commits, local, remote, tags, head, result, input>>

NextMessages ==
  \/ \E message \in Messages : Commit(message)
  \/ \E name \in MessageTagNames : CreateTag(name)
  \/ \E config \in MessageConfigs : CalculateVersion(config)
  \/ \E to \in 0..Len(commits) : DetermineBumpBetween(to)

SpecMessages == InitMessages /\ [][NextMessages]_vars

-----------------------------------------------------------------------------
(* The main line among release tags and release branches, in every mode    *)

TrunkMessages == {Msg_feat, Msg_fix, Msg_fix_breaking}

TrunkLocalNames == {Branch_main, Branch_release_1_0_0, Branch_release_1_1}

TrunkConfigs ==
  {Config(incrementing, cd, FALSE) :
     incrementing \in {"Enabled", "Disabled"}, cd \in BOOLEAN}

NextTrunk ==
  \/ \E message \in TrunkMessages : Commit(message)
  \/ \E name \in TrunkLocalNames : CreateBranch(name)
  \/ \E name \in TrunkLocalNames : Checkout(name)
  \/ \E name \in MessageTagNames : CreateTag(name)
  \/ \E name \in RemoteNames, c \in 1..Len(commits) : Fetch(name, c)
  \/ \E config \in TrunkConfigs : CalculateVersion(config)

SpecTrunk == Init /\ [][NextTrunk]_vars

-----------------------------------------------------------------------------
(* The as-release override, on every type of branch and in every mode      *)

AsReleaseTagNames == {Tag_v1_0_0, Tag_v0_1_0_pre_5000}

AsReleaseConfigs ==
  {Config(cmi, cd, TRUE) : cmi \in {"Enabled", "Disabled"}, cd \in BOOLEAN}

NextAsRelease ==
  \/ Commit(Msg_text)
  \/ \E name \in FeatureLocalNames : CreateBranch(name)
  \/ \E name \in FeatureLocalNames : Checkout(name)
  \/ \E c \in 1..Len(commits) : CheckoutCommit(c)
  \/ \E name \in AsReleaseTagNames : CreateTag(name)
  \/ \E name \in RemoteNames, c \in 1..Len(commits) : Fetch(name, c)
  \/ \E config \in AsReleaseConfigs : CalculateVersion(config)

SpecAsRelease == InitFeature /\ [][NextAsRelease]_vars

-----------------------------------------------------------------------------
(* The configuration: any value of commit_message_incrementing, and a      *)
(* path that opens as a repository or does not                             *)

\* GitVersioner::new: the fields of the struct are evaluated in the order
\* they are written, `repo: Repository::open(config.path())?` first.
new_at(path_opens, config) ==
  IF ~path_opens THEN Failed("could not find repository")
  ELSE new(config)

ValuesOfIncrementing == {"Enabled", "Disabled", "foo"}

AnyConfigs ==
  {Config(cmi, cd, FALSE) : cmi \in ValuesOfIncrementing, cd \in BOOLEAN}

ConfigLocalNames == {Branch_main, Branch_feature_a_b, Branch_release_1_0_0}

ConfigTagNames == {Tag_v1_0_0}

\* GitVersioner::calculate_version(&config), for a config.path() that
\* opens as the repository or does not open
CalculateVersionAt(path_opens, config) ==
  /\ \E resolved \in resolve_with(repo, new_at(path_opens, config)) :
       result' = [computed |-> TRUE, config |-> config,
                  path_opens |-> path_opens, resolved |-> resolved,
                  value |-> finish(repo, config, resolved)]
  /\ UNCHANGED <<commits, local, remote, tags, head, input, output>>

NextConfig ==
  \/ Commit(Msg_text)
  \/ \E name \in ConfigLocalNames : CreateBranch(name)
  \/ \E name \in ConfigLocalNames : Checkout(name)
  \/ \E name \in ConfigTagNames : CreateTag(name)
  \/ \E path_opens \in BOOLEAN, config \in AnyConfigs :
       CalculateVersionAt(path_opens, config)

SpecConfig == Init /\ [][NextConfig]_vars

-----------------------------------------------------------------------------
(* determine_branch_type_by_name, applied to names built from a word, a    *)
(* separator and a rest, under two main patterns                           *)

NameWords ==
  {Str_release, Str_release \o <<"s">>, Str_feature, Str_feature \o <<"s">>,
   Str_main, Str_trunk, Str_master, <<"d", "e", "v">>,
   <<"R", "e", "l", "e", "a", "s", "e">>}

NameSeparators == {<<"/">>, <<"-">>, <<"_">>, <<>>}

NameRests ==
  {<<"1", ".", "0">>, <<"1", ".", "0", ".", "0">>,
   <<"v", "1", ".", "0", ".", "0">>, <<"V", "1", ".", "0">>, <<"1">>,
   <<"1", ".", "0", ".", "0", "-", "r", "c", ".", "1">>,
   <<"1", ".", "0", "-", "r", "c">>, <<"0", "1", ".", "0">>,
   <<"x">>, <<"a", "/", "b">>, <<>>}

\* MAIN_BRANCH, and a configured ^(main|release/1.0|feature/x)$
MainPatterns ==
  {{Str_trunk, Str_main, Str_master},
   {Str_main, Str_release \o <<"/", "1", ".", "0">>,
    Str_feature \o <<"/", "x">>}}

InitBranchType ==
  /\ commits = <<[parent |-> 0, message |-> Msg_text]>>
  /\ local = [n \in LocalNames |-> IF n = Branch_main THEN 1 ELSE 0]
  /\ remote = [n \in RemoteNames |-> 0]
  /\ tags = [n \in TagNames |-> 0]
  /\ head = OnBranch(Branch_main)
  /\ result = NoResult
  /\ \E word \in NameWords, separator \in NameSeparators,
        rest \in NameRests, main_branch \in MainPatterns :
       input = [word |-> word, separator |-> separator, rest |-> rest,
                main_branch |-> main_branch]
  /\ output = NoOutput

\* versioner.determine_branch_type_by_name(&name)
DetermineBranchType ==
  /\ ~output.computed
  /\ output' = [computed |-> TRUE,
                value |-> determine_branch_type_with(
                            input.main_branch,
                            input.word \o input.separator \o input.rest)]
  /\ UNCHANGED <<commits, local, remote, tags, head, result, input>>

NextBranchType == DetermineBranchType

SpecBranchType == InitBranchType /\ [][NextBranchType]_vars

-----------------------------------------------------------------------------
(* escaped, applied to names drawn from a bounded set                      *)

MaxLen == 3

\* One or two characters of every class: ASCII letters and digits, the
\* symbols of branch names, and letters and digits outside ASCII.
NameChars == {"a", "Z", "5", "/", "_", "-", ".", "U+00E9", "U+0663"}

Names == UNION {[1..n -> NameChars] : n \in 0..MaxLen}

InitEscaped ==
  /\ commits = <<[parent |-> 0, message |-> Msg_text]>>
  /\ local = [n \in LocalNames |-> IF n = Branch_main THEN 1 ELSE 0]
  /\ remote = [n \in RemoteNames |-> 0]
  /\ tags = [n \in TagNames |-> 0]
  /\ head = OnBranch(Branch_main)
  /\ result = NoResult
  /\ input \in Names
  /\ output = NoOutput

\* Self::escaped(name)
Escape ==
  /\ ~output.computed
  /\ output' = [computed |-> TRUE, value |-> escaped(input)]
  /\ UNCHANGED <<commits, local, remote, tags, head, result, input>>

NextEscaped == Escape

SpecEscaped == InitEscaped /\ [][NextEscaped]_vars

-----------------------------------------------------------------------------
(* Properties                                                              *)

\* C1: two calls of calculate_version with the same configuration and no
\* change of the repository in between return identical GitVersion records
\* (every action that changes the repository clears `result`, so a step
\* from a computed result to a computed result is a second call).
C1_Idempotent ==
  [][(/\ result.computed
      /\ result'.computed
      /\ result'.config = result.config)
       => result'.value = result.value]_vars

\* C2: when HEAD's commit is the commit of the release-version source the
\* resolver selected, the result is that source's major.minor.patch with an
\* empty pre-release, on every type of branch and on a detached HEAD.
C2_TagShortCircuit ==
  (/\ result.computed
   /\ result.value.ok
   /\ result.resolved.source.version.pre = <<>>
   /\ result.resolved.source.commit_id = head_id(repo))
    => /\ result.value.major = result.resolved.source.version.major
       /\ result.value.minor = result.resolved.source.version.minor
       /\ result.value.patch = result.resolved.source.version.patch
       /\ result.value.pre_release_tag = <<>>

\* HEAD is on a branch of the main line.
OnMainLine(R) ==
  R.head.is_branch /\ determine_branch_type_by_name(R.head.name).type = "Trunk"

\* The distance of HEAD from the source of a resolved version.
Distance(R, resolved) ==
  count_commits_between(R, head_id(R),
    merge_base(R, head_id(R), resolved.source.commit_id))

\* The pre-release ordinal of the record a resolved version gives.
Ordinal(R, config, resolved) == finish(R, config, resolved).pre_release_number

\* A step that adds a commit to the main line and creates no tag or branch.
CommitOnMainLine == OnMainLine(repo) /\ Len(commits') = Len(commits) + 1

DiscreteConfigs ==
  {config \in Configs : ~config.continuous_delivery /\ ~config.as_release}

SourceClass(R, resolved) ==
  IF resolved.version.pre = <<>> /\ resolved.source.is_tag THEN "tag"
  ELSE IF /\ determine_branch_type_by_name(branch_name_for(R.head)).type
               = "Other"
          /\ starts_with(resolved.version.pre,
               escaped(determine_branch_type_by_name(
                         branch_name_for(R.head)).name) \o <<".">>)
  THEN "feature"
  ELSE "line"

SameTripleResolved(a, b) == SameTriple(a.version, b.version)

Weighted(R, config, resolved) ==
  finish(R, config, resolved).weighted_pre_release_number

\* first (on Ra) is above second (on Rb) when the classes ask for it
WeightedAbove(Ra, Rb, config, first, second) ==
  (\/ SourceClass(Ra, first) = "tag" /\ SourceClass(Rb, second) = "line"
   \/ SourceClass(Ra, first) = "line" /\ SourceClass(Rb, second) = "feature")
    => Weighted(Ra, config, first) > Weighted(Rb, config, second)

\* C4: of two results with equal major.minor.patch, resolved before and
\* after any step, a tag-sourced one has a strictly greater
\* weighted_pre_release_number than a main/release one that is not
\* tag-sourced, and that one a strictly greater number than a
\* feature-sourced one.
C4_WeightedOrdering ==
  [][\A config \in Configs :
       \A before \in resolve(repo, config) :
         \A after \in resolve(repo', config) :
           (before.ok /\ after.ok /\ SameTripleResolved(before, after)) =>
             /\ WeightedAbove(repo, repo', config, before, after)
             /\ WeightedAbove(repo', repo, config, after, before)]_vars

\* C5: escaped(name) has one character per character of the name: the
\* character itself when it is in [A-Za-z0-9], and "-" otherwise (so the
\* result contains only [A-Za-z0-9-]), for every class of character.
C5_Escaped ==
  output.computed =>
    /\ Len(output.value) = Len(input)
    /\ \A i \in 1..Len(input) :
         output.value[i] =
           IF input[i] \in AsciiLetter \cup Digit THEN input[i] ELSE "-"

\* The commits reachable from a commit; none from the zero id.
Reachable(R, c) == IF c = 0 THEN {} ELSE Ancestors(R, c)

\* HEAD is at the commit of the source or behind it.
AtOrBehind(R, source) == head_id(R) \in Reachable(R, source.commit_id)

\* The commits of HEAD's history that are not in the history of the source.
CommitsSince(R, source) ==
  Cardinality(Reachable(R, head_id(R)) \ Reachable(R, source.commit_id))

\* The result was computed with continuous delivery off and no as-release.
Discrete == result.computed /\ result.config \in DiscreteConfigs

NoTags == \A t \in TagNames : tags[t] = 0

OnlyMain ==
  /\ \A n \in LocalNames \ {Branch_main} : local[n] = 0
  /\ \A n \in RemoteNames : remote[n] = 0
  /\ head = OnBranch(Branch_main)

OnlyTag(name, c) == \A t \in TagNames : tags[t] = IF t = name THEN c ELSE 0

PreN(n) == Str_pre \o <<".">> \o to_string(n)

\* C6: on the main line in discrete mode, a HEAD that is not at or behind
\* the selected source S resolves to S.major.(S.minor+1).0-pre.N with N the
\* number of commits between HEAD and the merge base with S; without a
\* source the base is 0.0.0 and N counts every commit: the first commit
\* gives 0.1.0-pre.1, tagged v0.1.0 it gives 0.1.0, one more commit gives
\* 0.2.0-pre.1.
C6_TrunkDiscrete ==
  (Discrete /\ OnMainLine(repo)) =>
    /\ result.value.ok
    /\ ~AtOrBehind(repo, result.resolved.source) =>
         /\ result.value.major = result.resolved.source.version.major
         /\ result.value.minor = result.resolved.source.version.minor + 1
         /\ result.value.patch = 0
         /\ result.value.pre_release_tag =
              PreN(CommitsSince(repo, result.resolved.source))
         /\ result.value.pre_release_number =
              CommitsSince(repo, result.resolved.source)
    /\ (result.resolved.source = no_source) =>
         result.value.pre_release_number
           = Cardinality(Reachable(repo, head_id(repo)))
    /\ (OnlyMain /\ NoTags /\ Len(commits) = 1) =>
         result.value.full_sem_ver
           = <<"0", ".", "1", ".", "0", "-", "p", "r", "e", ".", "1">>
    /\ (OnlyMain /\ OnlyTag(Tag_v0_1_0, 1) /\ local[Branch_main] = 1) =>
         result.value.full_sem_ver = <<"0", ".", "1", ".", "0">>
    /\ (OnlyMain /\ OnlyTag(Tag_v0_1_0, 1) /\ local[Branch_main] = 2) =>
         result.value.full_sem_ver
           = <<"0", ".", "2", ".", "0", "-", "p", "r", "e", ".", "1">>

\* The main line two commits after a commit tagged v1.0.0: 1.1.0-pre.2.
C6_Witness ==
  /\ Discrete
  /\ OnMainLine(repo)
  /\ result.resolved.source = VersionSource(MkVersion(1, 0, 0, <<>>), 1, TRUE)
  /\ result.value.full_sem_ver
       = <<"1", ".", "1", ".", "0", "-", "p", "r", "e", ".", "2">>

\* The name is the name of a release branch.
IsRelease(name) == determine_branch_type_by_name(name).type = "Release"

\* The release-version tags and the tips of the release branches, local
\* and remote-tracking, with the 0.0.0 source of a repository without any.
ReleaseSources(R) ==
  {no_source}
    \cup {VersionSource(version_in(t), R.tags[t], TRUE) :
            t \in {n \in TagNames : R.tags[n] # 0 /\ version_in(n).ok}}
    \cup {VersionSource(determine_branch_type_by_name(n).version,
                         R.local[n], FALSE) :
            n \in {b \in LocalNames : R.local[b] # 0 /\ IsRelease(b)}}
    \cup {VersionSource(
            determine_branch_type_by_name(split_once_after(n).text).version,
            R.remote[n], FALSE) :
            n \in {b \in RemoteNames :
                     /\ R.remote[b] # 0
                     /\ IsRelease(split_once_after(b).text)}}

Highest(sources) ==
  {source \in sources :
     \A other \in sources : ~VersionLess(source.version, other.version)}

\* The repository with the local branch `name` replaced by the
\* remote-tracking branch of the same name and tip.
AsRemote(R, name) ==
  [R EXCEPT !.local[name] = 0,
            !.remote[Str_origin \o <<"/">> \o name] = R.local[name]]

\* C7: on the main line the selected source is a maximum by version over
\* the release-version tags and the tips of the release branches, local or
\* remote-tracking; a HEAD that is not at or behind a release branch X.Y.Z
\* that is the source resolves to X.(Y+1).0-pre.N; and a local release
\* branch replaced by a remote-tracking one of the same name and tip gives
\* the same results.
C7_RemoteReleaseBranches ==
  OnMainLine(repo) =>
    /\ Discrete =>
         /\ result.resolved.source \in Highest(ReleaseSources(repo))
         /\ (/\ ~result.resolved.source.is_tag
             /\ result.resolved.source.commit_id # 0
             /\ ~AtOrBehind(repo, result.resolved.source)) =>
              /\ result.value.major = result.resolved.source.version.major
              /\ result.value.minor
                   = result.resolved.source.version.minor + 1
              /\ result.value.patch = 0
              /\ result.value.pre_release_label = Str_pre
    /\ \A name \in LocalNames :
         (/\ local[name] # 0
          /\ IsRelease(name)
          /\ Str_origin \o <<"/">> \o name \in RemoteNames
          /\ remote[Str_origin \o <<"/">> \o name] = 0) =>
           \A config \in Configs :
             calculate_version(AsRemote(repo, name), config)
               = calculate_version(repo, config)

\* The main line ahead of origin/release/1.0.0, the only source: 1.1.0-pre.N.
C7_Witness ==
  /\ Discrete
  /\ OnMainLine(repo)
  /\ local[Branch_release_1_0_0] = 0
  /\ remote[Str_origin \o <<"/">> \o Branch_release_1_0_0] = 1
  /\ result.resolved.source = VersionSource(MkVersion(1, 0, 0, <<>>), 1, FALSE)
  /\ result.value.full_sem_ver
       = <<"1", ".", "1", ".", "0", "-", "p", "r", "e", ".", "1">>

\* The tag names that are not a prefix [vV]? followed by a semantic
\* version with an empty pre-release.
OtherTags ==
  {Tag_v1_0_0_pre_1, Tag_v0_1_0_pre_5000, Tag_x1_0_0, Tag_vv1_0_0, Tag_v1_0,
   Tag_v0_1_0_pre_1, Tag_v0_1_0_rc_1, Tag_v0_1_1_pre_1, Tag_v1_1_0_pre_1}

\* C8: with continuous delivery off, the tags that are version sources are
\* the ones named by the prefix and a semantic version with an empty
\* pre-release; the creation of any other tag (a pre-release version, a
\* prefix that does not match, a version that does not parse) leaves the
\* results of calculate_version as they were, and none is an error.
C8_OtherTagsAreNoSources ==
  [][/\ {source.commit_id : source \in version_tags(repo')}
          = {tags'[t] : t \in {n \in TagNames \ OtherTags : tags'[n] # 0}}
     /\ \A t \in OtherTags :
          (tags[t] = 0 /\ tags'[t] # 0) =>
            \A config \in DiscreteConfigs :
              /\ calculate_version(repo', config)
                   = calculate_version(repo, config)
              /\ \A value \in calculate_version(repo', config) : value.ok]_vars

\* A result computed two commits after the tag v1.0.0, on a commit that
\* carries the tag vv1.0.0: the version counts from v1.0.0.
C8_Witness ==
  /\ Discrete
  /\ OnMainLine(repo)
  /\ tags[Tag_v1_0_0] = 1
  /\ tags[Tag_vv1_0_0] = head_id(repo)
  /\ result.value.ok
  /\ result.value.pre_release_number = 2
  /\ result.value.version_source_sha = 1

\* HEAD is on a release branch; its declared version.
OnRelease(R) == R.head.is_branch /\ IsRelease(R.head.name)

Declared(R) == determine_branch_type_by_name(R.head.name).version

SameSeries(a, b) == a.major = b.major /\ a.minor = b.minor

\* The release-version tags of the series of HEAD's release branch.
SeriesTags(R) ==
  {source \in ReleaseSources(R) :
     source.is_tag /\ SameSeries(source.version, Declared(R))}

PreviousSeries(R) ==
  {source \in ReleaseSources(R) :
     /\ source.version.major = Declared(R).major
     /\ source.version.minor = Declared(R).minor - 1}

Delivery ==
  /\ result.computed
  /\ result.config.continuous_delivery
  /\ ~result.config.as_release

\* "M.m.p"
Triple(version) ==
  to_string(version.major) \o <<".">> \o to_string(version.minor) \o <<".">>
    \o to_string(version.patch)

\* The start "vM.m.p-<label>." of the names of the pre-release tags of a
\* version.
PreReleaseTagStart(version, label) ==
  <<"v">> \o Triple(version) \o <<"-">> \o label \o <<".">>

\* The tags of the repository named vM.m.p-<label>.N, for M.m.p of the
\* version.
PreReleaseTags(R, version, label) ==
  {t \in TagNames :
     /\ R.tags[t] # 0
     /\ starts_with(t, PreReleaseTagStart(version, label))
     /\ IsDigits(Suffix(t, Len(PreReleaseTagStart(version, label)) + 1))}

\* The N of a tag named vM.m.p-<label>.N
TagOrdinal(t, version, label) ==
  DigitsValue(Suffix(t, Len(PreReleaseTagStart(version, label)) + 1))

\* The tags with the highest N.
HighestTags(named, version, label) ==
  {t \in named :
     \A other \in named :
       TagOrdinal(other, version, label) <= TagOrdinal(t, version, label)}

\* The result is version-<label>.N, with N one more than the highest N of
\* the pre-release tags of the version and the commit of that tag as the
\* source, or N = 1 and the commit of the release source without such a tag.
NextPreRelease(R, value, version, label, release_source) ==
  /\ value.ok
  /\ SameTriple(value, version)
  /\ value.pre_release_label = label
  /\ IF PreReleaseTags(R, version, label) = {}
     THEN /\ value.pre_release_number = 1
          /\ value.version_source_sha = release_source.commit_id
     ELSE \E t \in HighestTags(PreReleaseTags(R, version, label),
                               version, label) :
            /\ value.pre_release_number
                 = 1 + TagOrdinal(t, version, label)
            /\ value.version_source_sha = R.tags[t]
  /\ value.pre_release_tag
       = label \o <<".">> \o to_string(value.pre_release_number)

C12_ReleaseDelivery ==
  (Delivery /\ OnRelease(repo)) =>
    IF SeriesTags(repo) # {}
    THEN \E T \in Highest(SeriesTags(repo)) :
           (/\ ~AtOrBehind(repo, T)
            /\ PreReleaseTags(repo, bump_patch(T.version), Str_pre) # {}) =>
             NextPreRelease(repo, result.value, bump_patch(T.version),
                            Str_pre, T)
    ELSE (/\ result.value.ok
          /\ result.value.pre_release_tag # <<>>
          /\ PreReleaseTags(repo, Declared(repo), Str_pre) # {}) =>
           NextPreRelease(repo, result.value, Declared(repo), Str_pre,
                          no_source)

\* The main line alone, with HEAD on it.
MainAlone ==
  /\ \A n \in LocalNames \ {Branch_main} : local[n] = 0
  /\ \A n \in RemoteNames : remote[n] = 0
  /\ head = OnBranch(Branch_main)

\* v1.0.0 on the first commit, HEAD one untagged commit ahead.
AfterRelease ==
  /\ Delivery
  /\ MainAlone
  /\ OnlyTag(Tag_v1_0_0, 1)
  /\ local[Branch_main] = 2
  /\ commits[2].parent = 1

\* v1.0.0 on the first commit, v1.1.0-pre.1 on the second, HEAD two
\* commits after it.
AfterPreRelease ==
  /\ Delivery
  /\ MainAlone
  /\ \A t \in TagNames :
       tags[t] = IF t = Tag_v1_0_0 THEN 1
                 ELSE IF t = Tag_v1_1_0_pre_1 THEN 2 ELSE 0
  /\ Len(commits) = 4
  /\ \A c \in 2..4 : commits[c].parent = c - 1
  /\ local[Branch_main] = 4

Version_1_1_0_pre_1 ==
  <<"1", ".", "1", ".", "0", "-", "p", "r", "e", ".", "1">>

Version_1_1_0_pre_2 ==
  <<"1", ".", "1", ".", "0", "-", "p", "r", "e", ".", "2">>

\* C13 (as stated): in continuous-delivery mode on the main line with v1.0.0
\* and HEAD one untagged commit ahead, the result is 1.1.0-pre.1 with an
\* empty version source; with that commit tagged v1.1.0-pre.1 and two more
\* commits, the result is 1.1.0-pre.2 with the commit of the pre-release
\* tag as version source.
C13_Scenario ==
  /\ AfterRelease =>
       /\ result.value.ok
       /\ result.value.full_sem_ver = Version_1_1_0_pre_1
       /\ result.value.version_source_sha = 0
  /\ AfterPreRelease =>
       /\ result.value.ok
       /\ result.value.full_sem_ver = Version_1_1_0_pre_2
       /\ result.value.version_source_sha = tags[Tag_v1_1_0_pre_1]

\* C13 (amended): in continuous-delivery mode on the main line with v1.0.0
\* and HEAD one untagged commit ahead, the result is 1.1.0-pre.1 with the
\* commit of v1.0.0 as version source; with that commit tagged v1.1.0-pre.1
\* and two more commits, the result is 1.1.0-pre.2 with the commit of the
\* pre-release tag as version source.
C13_ScenarioFromRelease ==
  /\ AfterRelease =>
       /\ result.value.ok
       /\ result.value.full_sem_ver = Version_1_1_0_pre_1
       /\ result.value.version_source_sha = tags[Tag_v1_0_0]
  /\ AfterPreRelease =>
       /\ result.value.ok
       /\ result.value.full_sem_ver = Version_1_1_0_pre_2
       /\ result.value.version_source_sha = tags[Tag_v1_1_0_pre_1]

\* The end of the scenario: four commits, v1.0.0 on the first, v1.1.0-pre.1
\* on the second, and the result 1.1.0-pre.2 from the second commit.
C13_Witness ==
  /\ AfterPreRelease
  /\ result.value.pre_release_number = 2
  /\ result.value.version_source_sha = 2
  /\ result.value.weighted_pre_release_number = PRERELEASE_WEIGHT_MAIN + 2

\* HEAD is on a branch that is neither the main line nor a release line,
\* or detached; the name that goes into the pre-release.
OnOther(R) ==
  determine_branch_type_by_name(branch_name_for(R.head)).type = "Other"

OtherName(R) == determine_branch_type_by_name(branch_name_for(R.head)).name

\* The main line and the release lines of the repository, local and
\* remote-tracking: the type and the tip of each.
Lines(R) ==
  {[type |-> determine_branch_type_by_name(n), tip |-> R.local[n]] :
     n \in {b \in LocalNames :
              /\ R.local[b] # 0
              /\ determine_branch_type_by_name(b).type # "Other"}}
    \cup
  {[type |-> determine_branch_type_by_name(split_once_after(n).text),
    tip |-> R.remote[n]] :
     n \in {b \in RemoteNames :
              /\ R.remote[b] # 0
              /\ determine_branch_type_by_name(split_once_after(b).text).type
                   # "Other"}}

\* The commits of HEAD's history that are not in the history of the line.
LineDistance(R, line) ==
  Cardinality(Reachable(R, head_id(R)) \ Reachable(R, line.tip))

\* Distance ascending, then type ascending.
CloserLine(R, a, b) ==
  \/ LineDistance(R, a) < LineDistance(R, b)
  \/ /\ LineDistance(R, a) = LineDistance(R, b)
     /\ branch_type_less(a.type, b.type)

ClosestLines(R) ==
  {line \in Lines(R) : \A other \in Lines(R) : ~CloserLine(R, other, line)}

\* The suffix "<escaped name>.<distance>"
FeatureSuffix(R, distance) ==
  escaped(OtherName(R)) \o <<".">> \o to_string(distance)

\* The result is the output of the resolver of the line with the suffix
\* of the branch in place of the pre-release, and the weight of a feature.
FromLine(R, config, res, line) ==
  \E base \in resolve_for(R, new(config), line.type) :
    /\ base.ok
    /\ res.resolved.ok
    /\ res.resolved.version
         = [base.version EXCEPT
              !.pre = FeatureSuffix(R, LineDistance(R, line))]
    /\ res.resolved.source = base.source
    /\ res.resolved.weight = PRERELEASE_WEIGHT_FEATURE
    /\ res.value.ok
    /\ res.value.pre_release_tag = FeatureSuffix(R, LineDistance(R, line))
    /\ res.value.pre_release_number = LineDistance(R, line)
    /\ res.value.weighted_pre_release_number
         = PRERELEASE_WEIGHT_FEATURE + LineDistance(R, line)

\* C14: on a branch that is neither the main line nor a release line (a
\* feature branch, a name no pattern matches, a detached HEAD), the
\* candidates are the local and remote-tracking main and release lines,
\* the closest is the first by distance, then by type (the main line
\* before a release line); with its distance D > 0 the result is the
\* output of the resolver of that line at HEAD with the pre-release
\* escaped(name).D and the weight 30000; without a candidate the result is
\* 0.1.0-escaped(name).D with D the number of commits in HEAD's history.
C14_FeatureFromClosestLine ==
  (result.computed /\ ~result.config.as_release /\ OnOther(repo)) =>
    IF Lines(repo) = {}
    THEN /\ result.value.ok
         /\ SameTriple(result.value, Version_0_1_0)
         /\ result.value.pre_release_tag
              = FeatureSuffix(repo, Cardinality(Reachable(repo, head_id(repo))))
         /\ result.value.weighted_pre_release_number
              = PRERELEASE_WEIGHT_FEATURE
                  + Cardinality(Reachable(repo, head_id(repo)))
    ELSE \E line \in ClosestLines(repo) :
           LineDistance(repo, line) > 0 =>
             FromLine(repo, result.config, result, line)

\* feature/a_b one commit after dev, itself one commit after the main
\* line: the distance to the main line is 2, and the result 0.1.0-a-b.2.
C14_Witness ==
  /\ result.computed
  /\ head = OnBranch(Branch_feature_a_b)
  /\ local[Branch_main] = 1
  /\ local[Branch_dev] = 2
  /\ local[Branch_feature_a_b] = 3
  /\ commits[3].parent = 2
  /\ result.value.full_sem_ver
       = <<"0", ".", "1", ".", "0", "-", "a", "-", "b", ".", "2">>
  /\ result.value.weighted_pre_release_number = PRERELEASE_WEIGHT_FEATURE + 2

\* The result was computed with commit-message incrementing, without
\* as-release.
Incrementing ==
  /\ result.computed
  /\ result.config.commit_message_incrementing = "Enabled"
  /\ ~result.config.as_release

\* The messages that are a breaking change (the "!" marker or the
\* BREAKING CHANGE footer), and the ones that are a feat commit.
BreakingMessages == {Msg_fix_breaking, Msg_fix_footer}

FeatMessages == {Msg_feat}

\* The commits of the history of `from` that are not in the history of
\* `to`.
Between(R, from, to) == Reachable(R, from) \ Reachable(R, to)

AnyBreaking(R, range) ==
  \E c \in range : R.commits[c].message \in BreakingMessages

AnyFeat(R, range) == \E c \in range : R.commits[c].message \in FeatMessages

\* The version after S for the commits of the range.
BumpedFor(R, S, range) ==
  IF AnyBreaking(R, range)
  THEN IF S.version.major = 0 THEN bump_minor(S.version)
       ELSE bump_major(S.version)
  ELSE IF AnyFeat(R, range) THEN bump_minor(S.version)
  ELSE IF S.version.major = 0 /\ S.version.minor = 0
  THEN bump_minor(S.version)
  ELSE bump_patch(S.version)

\* C15: on the main line with commit-message incrementing and HEAD not at
\* or behind the selected source S, a breaking change among the commits
\* between HEAD and the merge base bumps major (minor when S.major = 0);
\* otherwise a feat commit bumps minor; otherwise patch is bumped (minor
\* when S.major = 0 and S.minor = 0); minor and patch are reset below the
\* bumped part.
C15_MessageBump ==
  (Incrementing /\ OnMainLine(repo)) =>
    \E S \in Highest(ReleaseSources(repo)) :
      ~AtOrBehind(repo, S) =>
        /\ result.value.ok
        /\ SameTriple(result.value,
                      BumpedFor(repo, S,
                                Between(repo, head_id(repo), S.commit_id)))

\* The bump expected for the commits of a range.
ExpectedBump(R, range) ==
  IF AnyBreaking(R, range) THEN "Major"
  ELSE IF AnyFeat(R, range) THEN "Minor"
  ELSE "Patch"

\* C19: determine_bump_between returns Major when a commit between HEAD
\* and the merge base is a breaking change, also with a feat commit met
\* before it in the walk; otherwise Minor when a commit is a feat;
\* otherwise Patch; other commits contribute nothing.
C19_DetermineBump ==
  output.computed =>
    output.value = ExpectedBump(repo, Between(repo, output.from, output.to))

\* The configuration without the as-release override.
WithoutAsRelease(config) == [config EXCEPT !.as_release = FALSE]

\* C16: with the as-release override, calculate_version returns the
\* major.minor.patch the resolver gave, with an empty pre-release and
\* weighted_pre_release_number = 60000 (the weight of a tag and the
\* ordinal 0), whatever pre-release and weight the resolver gave, on every
\* type of branch and in every mode.
C16_AsRelease ==
  (result.computed /\ result.config.as_release) =>
    /\ result.resolved.ok
    /\ result.value.ok
    /\ SameTriple(result.value, result.resolved.version)
    /\ result.value.pre_release_tag = <<>>
    /\ result.value.pre_release_label = <<>>
    /\ result.value.pre_release_number = 0
    /\ result.value.weighted_pre_release_number = PRERELEASE_WEIGHT_TAG
    /\ result.value.full_sem_ver = Triple(result.resolved.version)
    /\ \E plain \in calculate_version(repo,
                                      WithoutAsRelease(result.config)) :
         /\ plain.ok
         /\ SameTriple(result.value, plain)
         /\ result.value.version_source_sha = plain.version_source_sha

\* A feature branch one commit after the main line, as a release: the
\* resolver gave the suffix of the branch and the weight of a feature, the
\* result is 0.1.0 with 60000.
C16_Witness ==
  /\ result.computed
  /\ result.config.as_release
  /\ head = OnBranch(Branch_feature_a_b)
  /\ result.resolved.weight = PRERELEASE_WEIGHT_FEATURE
  /\ result.resolved.version.pre = <<"a", "-", "b", ".", "1">>
  /\ result.value.full_sem_ver = <<"0", ".", "1", ".", "0">>
  /\ result.value.weighted_pre_release_number = PRERELEASE_WEIGHT_TAG

\* The release-version tags on HEAD's commit that are the one highest
\* source of the repository.
HighestTagsAtHead(R) ==
  {source \in ReleaseSources(R) :
     /\ source.is_tag
     /\ source.commit_id = head_id(R)
     /\ Highest(ReleaseSources(R)) = {source}}

\* C17: a detached HEAD is not an error: calculate_version succeeds with
\* branch_name "(no branch)" and escaped_branch_name "-no-branch-", and
\* when the detached commit carries the highest release tag the result is
\* the version of that tag, with version_source_sha that commit and
\* weighted_pre_release_number 60000.
C17_DetachedHead ==
  (result.computed /\ ~result.config.as_release /\ ~head.is_branch) =>
    /\ result.value.ok
    /\ result.value.branch_name = NO_BRANCH_NAME
    /\ result.value.escaped_branch_name
         = <<"-", "n", "o", "-", "b", "r", "a", "n", "c", "h", "-">>
    /\ \A T \in HighestTagsAtHead(repo) :
         /\ result.value.full_sem_ver = Triple(T.version)
         /\ result.value.version_source_sha = head_id(repo)
         /\ result.value.weighted_pre_release_number = PRERELEASE_WEIGHT_TAG

\* C18: with a commit_message_incrementing that is neither "Enabled" nor
\* "Disabled", calculate_version aborts with the invalid-value failure
\* before the repository is opened: the outcome is that failure whether
\* the repository path opens or not.
C18_InvalidIncrementing ==
  (/\ result.computed
   /\ result.config.commit_message_incrementing
        \notin {"Enabled", "Disabled"}) =>
    result.value = Panicked("Invalid value for CommitMessageIncrementing")

\* The lines that are first in the order by type alone.
FirstLinesByType(R) ==
  {line \in Lines(R) :
     \A other \in Lines(R) : ~branch_type_less(other.type, line.type)}

\* C20: on a release branch X.Y.Z in discrete mode, without a
\* release-version tag X.Y.* and without a source of the previous series,
\* the candidates are the local and remote-tracking main and release
\* lines, ordered by type alone (the main line before a release line,
\* whatever the distances), and the result is X.Y.Z-pre.N with N the
\* distance of HEAD from the first of them, and an empty version source.
C20_ReleaseFromBranches ==
  (/\ Discrete
   /\ OnRelease(repo)
   /\ SeriesTags(repo) = {}
   /\ PreviousSeries(repo) = {}) =>
    \E line \in FirstLinesByType(repo) :
      /\ result.value.ok
      /\ SameTriple(result.value, Declared(repo))
      /\ result.value.pre_release_tag = PreN(LineDistance(repo, line))
      /\ result.value.version_source_sha = 0
      /\ result.value.weighted_pre_release_number
           = PRERELEASE_WEIGHT_RELEASE + LineDistance(repo, line)

\* release/1.2.0 one commit after the main line, itself one commit after
\* v1.0.0: 1.2.0-pre.1, without a version source.
C20_Witness ==
  /\ Discrete
  /\ head = OnBranch(Branch_release_1_2_0)
  /\ tags[Tag_v1_0_0] = 1
  /\ local[Branch_main] = 2
  /\ local[Branch_release_1_2_0] = 3
  /\ commits[3].parent = 2
  /\ result.value.full_sem_ver
       = <<"1", ".", "2", ".", "0", "-", "p", "r", "e", ".", "1">>
  /\ result.value.version_source_sha = 0

\* C21: on a branch that is neither the main line nor a release line,
\* with the closest main or release line at distance 0 from HEAD, the
\* result is the resolution of that line unmodified: the same version and
\* pre-release, the same version source and the same weight (55000 or
\* 60000), without the label of the branch and without the weight of a
\* feature.
C21_FeatureAtLine ==
  (result.computed /\ ~result.config.as_release /\ OnOther(repo)) =>
    \A line \in ClosestLines(repo) :
      LineDistance(repo, line) = 0 =>
        /\ result.resolved
             \in resolve_for(repo, new(result.config), line.type)
        /\ result.resolved.ok
        /\ result.resolved.weight
             \in {PRERELEASE_WEIGHT_MAIN, PRERELEASE_WEIGHT_TAG}
        /\ result.value.ok
        /\ result.value.pre_release_tag = result.resolved.version.pre
        /\ result.value.pre_release_label \in {<<>>, Str_pre}
        /\ result.value.weighted_pre_release_number
             = result.resolved.weight + result.value.pre_release_number

\* A detached HEAD on the commit of v1.0.0, the tip of the main line:
\* 1.0.0 with 60000.
C21_Witness ==
  /\ result.computed
  /\ ~head.is_branch
  /\ head_id(repo) = 2
  /\ local[Branch_main] = 2
  /\ tags[Tag_v1_0_0] = 2
  /\ result.value.full_sem_ver = <<"1", ".", "0", ".", "0">>
  /\ result.value.weighted_pre_release_number = PRERELEASE_WEIGHT_TAG

\* The name of the input.
InputName == input.word \o input.separator \o input.rest

\* The name is <word>s?[/-]<rest> with a rest that is not empty.
IsLineName(word) ==
  /\ input.word \in {word, word \o <<"s">>}
  /\ input.separator \in {<<"/">>, <<"-">>}
  /\ input.rest # <<>>

\* The rests that are a release version, with two or three components
\* and with or without the prefix: all of them 1.0.0.
ReleaseRests ==
  {<<"1", ".", "0">>, <<"1", ".", "0", ".", "0">>,
   <<"v", "1", ".", "0", ".", "0">>, <<"V", "1", ".", "0">>}

\* C22: determine_branch_type_by_name returns the first hit of: the name
\* matches the main pattern, the main line (also for a name that matches
\* the release or the feature pattern); the name matches the release
\* pattern and its capture, with ".0" appended to a version of two
\* components, is a release version, the release line of that version
\* (release/1.0 and release/v1.0.0 are 1.0.0); the name matches the
\* feature pattern, Other with the capture; anything else, a release name
\* with a capture that is no release version included, Other with the
\* whole name.
C22_BranchType ==
  output.computed =>
    output.value =
      IF InputName \in input.main_branch THEN Trunk
      ELSE IF IsLineName(Str_release) /\ input.rest \in ReleaseRests
      THEN Release(MkVersion(1, 0, 0, <<>>))
      ELSE IF IsLineName(Str_feature) THEN Other(input.rest)
      ELSE Other(InputName)

\* release/1.0 under the main pattern ^(main|release/1.0|feature/x)$: the
\* main line.
C22_Witness ==
  /\ output.computed
  /\ InputName = Str_release \o <<"/", "1", ".", "0">>
  /\ InputName \in input.main_branch
  /\ output.value = Trunk

\* The result was computed without as-release and is a version.
Plain == result.computed /\ ~result.config.as_release /\ result.value.ok

\* HEAD is on a feature line that has left its closest main or release
\* line, or has none.
Diverged(R) ==
  OnOther(R) /\ \A line \in ClosestLines(R) : LineDistance(R, line) > 0

\* C23 (as stated): weighted_pre_release_number is the pre-release ordinal
\* plus the weight: 60000 whenever the version source is a tag, otherwise
\* 55000 for results of the main or release path and 30000 for feature
\* lines.
C23_Weights ==
  Plain =>
    result.value.weighted_pre_release_number
      = result.value.pre_release_number
          + (IF result.resolved.source.is_tag THEN PRERELEASE_WEIGHT_TAG
             ELSE IF OnOther(repo) THEN PRERELEASE_WEIGHT_FEATURE
             ELSE PRERELEASE_WEIGHT_MAIN)

\* C23 (amended): weighted_pre_release_number is the pre-release ordinal
\* plus the weight: 30000 on a feature line that has left its closest main
\* or release line; otherwise 60000 when the result is the version of a
\* source that is a tag (HEAD at or behind the tag, no pre-release), and
\* 55000 for every other result of the main or release path, a HEAD ahead
\* of a tag included.
C23_WeightsOfResults ==
  Plain =>
    result.value.weighted_pre_release_number
      = result.value.pre_release_number
          + (IF Diverged(repo) THEN PRERELEASE_WEIGHT_FEATURE
             ELSE IF /\ result.resolved.source.is_tag
                     /\ result.value.pre_release_tag = <<>>
             THEN PRERELEASE_WEIGHT_TAG
             ELSE PRERELEASE_WEIGHT_MAIN)

\* The main line one commit after v1.0.0: the source is a tag, the result
\* 1.1.0-pre.1 with 55001.
C23_Witness ==
  /\ Plain
  /\ OnMainLine(repo)
  /\ result.resolved.source = VersionSource(MkVersion(1, 0, 0, <<>>), 1, TRUE)
  /\ result.value.pre_release_number = 1
  /\ result.value.weighted_pre_release_number = PRERELEASE_WEIGHT_MAIN + 1

\* Resolving a branch type at HEAD is an Err of the merge base.
BaseFails(R, config, branch_type) ==
  \A resolved \in resolve_for(R, new(config), branch_type) :
    ~resolved.ok /\ ~resolved.panic

\* C24: a merge-base failure at any step of a resolution makes
\* calculate_version return an error and no GitVersion, for every branch
\* type of HEAD: a failure of the resolver of HEAD's own type, of the search
\* for the closest line of a feature line, and of the resolution of the
\* base version of the closest line.
C24_AccessorFailure ==
  result.computed =>
    /\ BaseFails(repo, result.config,
                 determine_branch_type_by_name(branch_name_for(head)))
          => ~result.value.ok
    /\ (OnOther(repo) /\ source_branches_fail(repo, head_id(repo)))
          => ~result.value.ok
    /\ (OnOther(repo) /\ ~source_branches_fail(repo, head_id(repo)))
          => \A line \in ClosestLines(repo) :
               BaseFails(repo, result.config, line.type) => ~result.value.ok

\* The branches of type Other that exist.
OtherBranches(R) ==
  {i \in DOMAIN BranchOrder :
     BranchTip(R, i) # 0 /\ CleanedType[i].type = "Other"}

\* C25: the candidates of find_all_source_branches, for every commit they
\* are counted from, never contain a branch of type Other, and no result is
\* the panic "Unexpected branch type" of calculate_version_for_feature.
C25_NoOtherCandidate ==
  /\ \A c \in 1..Len(commits) :
       \A i \in DOMAIN find_all_source_branches(repo, c) :
         find_all_source_branches(repo, c)[i].branch_type.type # "Other"
  /\ result.computed =>
       \/ result.resolved.ok
       \/ result.resolved.error # "Unexpected branch type"

\* A feature line resolved from a closest line while two branches of type
\* Other exist.
C25_Witness ==
  /\ result.computed
  /\ OnOther(repo)
  /\ Cardinality(OtherBranches(repo)) = 2
  /\ find_all_source_branches(repo, head_id(repo)) # <<>>
  /\ result.resolved.ok

\* The release versions calculate_version_for_release is called with at
\* HEAD: the one of HEAD's release branch, or the ones of the closest
\* release lines of a feature line or a detached HEAD.
ReleaseCalls(R) ==
  IF OnRelease(R) THEN {Declared(R)}
  ELSE IF OnOther(R)
  THEN {line.type.version :
          line \in {l \in ClosestLines(R) : l.type.type = "Release"}}
  ELSE {}

\* No source of the series and none of the previous series.
OnFallbackPath(R, release_version) ==
  /\ find_latest_version_source(R, FALSE,
       major_minor_comparator(release_version.major, release_version.minor))
       = {}
  /\ find_latest_version_source(R, TRUE, previous_version(release_version))
       = {}

\* C26: whenever calculate_version_for_release reaches its last path,
\* find_all_source_branches returns at least one candidate and the unwrap
\* of the first does not panic, on a release branch and when the release
\* resolver is called from the feature resolver.
C26_FallbackHasCandidate ==
  /\ \A release_version \in ReleaseCalls(repo) :
       OnFallbackPath(repo, release_version) =>
         /\ find_all_source_branches(repo, head_id(repo)) # <<>>
         /\ \A resolved \in
                calculate_version_for_release(repo, new(DeliveryConfig),
                                              release_version) :
              resolved.ok
  /\ result.computed =>
       \/ result.resolved.ok
       \/ result.resolved.error # "unwrap on None"

\* A detached HEAD whose closest line is a release branch without any
\* source, resolved.
C26_Witness ==
  /\ result.computed
  /\ ~head.is_branch
  /\ ReleaseCalls(repo) # {}
  /\ \A release_version \in ReleaseCalls(repo) :
       OnFallbackPath(repo, release_version)
  /\ result.resolved.ok

\* C27: without as-release, a result that carries a pre-release has a
\* pre-release number of at least 1, on every line and in both modes, a
\* release branch just created from the main line included.
C27_OrdinalAtLeastOne ==
  (Plain /\ result.value.pre_release_tag # <<>>) =>
    result.value.pre_release_number >= 1

\* C28: without as-release, a result has an empty pre-release only when
\* the selected source is a tag whose commit HEAD is at or behind; its
\* weighted_pre_release_number is then 60000.
C28_ReleaseOnlyFromTag ==
  (Plain /\ result.value.pre_release_tag = <<>>) =>
    /\ result.resolved.source.is_tag
    /\ AtOrBehind(repo, result.resolved.source)
    /\ result.value.weighted_pre_release_number = PRERELEASE_WEIGHT_TAG

\* The repository before HEAD's release branch was created: HEAD on main.
MainBefore(R) ==
  [R EXCEPT !.head = OnBranch(Branch_main), !.local[R.head.name] = 0]

\* The commits of HEAD's release branch since it left the tip of main.
OwnCommits(R) ==
  Cardinality(Reachable(R, head_id(R)) \ Reachable(R, R.local[Branch_main]))

\* HEAD's release branch X.Y.0, Y >= 1, starts at the tip of main.
FromMainTip(R) ==
  /\ OnRelease(R)
  /\ R.local[Branch_main] \in Reachable(R, head_id(R))
  /\ Declared(R).minor >= 1
  /\ Declared(R).patch = 0
  /\ Declared(R).pre = <<>>

\* The version X.Y.0-<label>.N the main line had for the release branch
\* of X.Y.0.
MainHad(R, config) ==
  {before \in resolve(MainBefore(R), config) :
     /\ before.ok
     /\ before.version.pre # <<>>
     /\ SameTriple(before.version, Declared(R))}

\* C29: in discrete mode, a release branch for X.Y.0 created where the main
\* line resolves to X.Y.0-<label>.N, Y >= 1, resolves to the same version
\* with the same source, and every commit on it raises N by one.
C29_ReleaseContinuesMain ==
  (Discrete /\ FromMainTip(repo)) =>
    \A before \in MainHad(repo, result.config) :
      /\ result.resolved.ok
      /\ result.resolved.source = before.source
      /\ SameTriple(result.resolved.version, before.version)
      /\ result.value.pre_release_label
           = finish(MainBefore(repo), result.config, before).pre_release_label
      /\ result.value.pre_release_number
           = finish(MainBefore(repo), result.config, before).pre_release_number
               + OwnCommits(repo)

\* The result is one the main line gives for a highest source that HEAD is
\* not at or behind.
AheadOfSelected ==
  /\ result.computed
  /\ OnMainLine(repo)
  /\ result.resolved.ok
  /\ \E source \in Highest(ReleaseSources(repo)) :
       /\ ~AtOrBehind(repo, source)
       /\ result.resolved
            \in trunk_from(repo, new(result.config), source)

\* C30: on the main line, when HEAD is not at or behind the selected
\* source, major.minor.patch of the result is strictly greater than the
\* version of every release-version tag and of every release branch, local
\* or remote-tracking, with and without commit-message incrementing and
\* continuous delivery.
C30_AboveEveryRelease ==
  AheadOfSelected =>
    \A source \in ReleaseSources(repo) :
      VersionLess(source.version,
                  [result.resolved.version EXCEPT !.pre = <<>>])

\* A fix commit on main after v1.0.0, below release/1.1: 1.1.1 with
\* commit-message incrementing.
C30_Witness ==
  /\ AheadOfSelected
  /\ result.config.commit_message_incrementing = "Enabled"
  /\ tags[Tag_v1_0_0] # 0
  /\ local[Branch_release_1_1] # 0
  /\ result.value.major = 1
  /\ result.value.minor = 1
  /\ result.value.patch = 1

====
